---- MODULE Spec2Model ----
(***************************************************************************)
(* A model of the CPU path tracer of flux (src/src/raytrace): the          *)
(* progressive Film behind its reader/writer lock, the render threads      *)
(* spawned by RenderEngine::render_frame, the display thread of            *)
(* RaytraceState::render, the scene translation, the two-level             *)
(* accelerator with its shape kernels, and the recursive integrator.       *)
(*                                                                         *)
(* Arithmetic.  f32 values are modelled as exact rationals <<n, d>> with   *)
(* d > 0; every comparison, truncation and clamp of the source is taken    *)
(* on the exact value.  Rounding of f32 is not modelled.                   *)
(***************************************************************************)
EXTENDS Integers, Sequences, FiniteSets, TLC

VARIABLES
  film,          \* RenderEngine.film: [w, h, data], data a sequence of RGBA8 pixels
  film_lock,     \* the RwLock around the Film: [writer, readers]
  threads,       \* the render threads spawned by render_frame
  settings,      \* RenderEngine.settings
  scene_engine,  \* SceneEngine: [cameras, active_cam, root]
  context,       \* the RenderContext returned by prepare_render and not yet rendered
  main_pc,       \* the calling thread, which is also the display thread:
                 \* "running", "reading" (it holds the read lock) or "panicked"
  core_scene,    \* the nodes of the crate::core::Scene given to translate
  scene,         \* the Primitives of the translated node tree, or None
  accel,         \* the Accelerator built from scene, or None
  shape,         \* the shape a kernel is applied to on its own, or None
  ray,           \* the Ray given to Accelerator::intersect or to a kernel
  hit,           \* what the last intersect call returned, or None
  build_loop,    \* Accelerator::build while it runs and when it has ended, or None
  li_stack,      \* the activations of PathIntegrator::li, outermost first
  li_result,     \* what the outermost li call returned, or None
  node_data,     \* the NodeData behind every crate::core::Node, by identity
  node_call,     \* the last set_parent call and how it ended, or None
  json,          \* what serde_json::to_string gave for a Node, or None
  de_nodes,      \* the NodeData made by serde_json::from_str, or None
  ndc_call,      \* the last NDC sample the render loop computed, with its inputs, or None
  texture,       \* the Film data last uploaded by the display, or None
  film_call,     \* the last call of a Film method made on its own, or None
  arcs           \* the strong counts of the Arc<dyn Camera> and Arc<Accelerator>
                 \* allocations when they are followed, or None

engine_vars ==
  <<film, film_lock, threads, settings, scene_engine, context, main_pc>>

geo_vars == <<core_scene, scene, accel, shape, ray, hit, build_loop>>

li_vars == <<li_stack, li_result>>

node_vars == <<node_data, node_call, json, de_nodes>>

screen_vars == <<ndc_call, texture, film_call, arcs>>

vars == <<engine_vars, geo_vars, li_vars, node_vars, screen_vars>>

(***************************************************************************)
(* Bounds of the model.                                                    *)
(***************************************************************************)
MaxThreads == 2
MaxCameras == 1

Threads == 1..MaxThreads
\* the settings RenderEngine::new is given: resolutions <<width, height>>
\* and samples_per_pixel
Resolutions == {<<1, 1>>, <<2, 1>>}
SamplesPerPixel == {0, 1, 2}

(***************************************************************************)
(* Rationals.                                                              *)
(***************************************************************************)
Rat(n, d) == <<n, d>>
RLess(p, q) == p[1] * q[2] < q[1] * p[2]
RLeq(p, q) == p[1] * q[2] <= q[1] * p[2]
REq(p, q) == p[1] * q[2] = q[1] * p[2]
RAdd(p, q) == <<p[1] * q[2] + q[1] * p[2], p[2] * q[2]>>
RSub(p, q) == <<p[1] * q[2] - q[1] * p[2], p[2] * q[2]>>
RMul(p, q) == <<p[1] * q[1], p[2] * q[2]>>
RDivInt(p, k) == <<p[1], p[2] * k>>
RMulInt(p, k) == <<p[1] * k, p[2]>>

(***************************************************************************)
(* math/color.rs                                                           *)
(***************************************************************************)
Color(r, g, b) == [r |-> r, g |-> g, b |-> b]
ColorAdd(a, b) == Color(RAdd(a.r, b.r), RAdd(a.g, b.g), RAdd(a.b, b.b))
ColorSub(a, b) == Color(RSub(a.r, b.r), RSub(a.g, b.g), RSub(a.b, b.b))
ColorDiv(a, k) == Color(RDivInt(a.r, k), RDivInt(a.g, k), RDivInt(a.b, k))
ColorEq(a, b) == REq(a.r, b.r) /\ REq(a.g, b.g) /\ REq(a.b, b.b)

\* (x * 255.0).clamp(0.0, 255.0) as u8: the cast truncates
ChannelIntoU8(q) ==
  LET v == (q[1] * 255) \div q[2]
  IN IF q[1] <= 0 THEN 0 ELSE IF v >= 255 THEN 255 ELSE v

ColorIntoU8x4(c) == <<ChannelIntoU8(c.r), ChannelIntoU8(c.g), ChannelIntoU8(c.b), 255>>

(***************************************************************************)
(* raytrace/film.rs                                                        *)
(***************************************************************************)
FilmNew(width, height) ==
  [w |-> width, h |-> height, data |-> [i \in 1..(width * height) |-> <<0, 0, 0, 0>>]]

FilmIndex_ColumnMajor(f, x, y) == x * f.h + y + 1

\* the index (y * dimension.0 + x), as a position of the TLA+ sequence
FilmIndex(f, x, y) == y * f.w + x + 1

FilmPixel(f, x, y) ==
  LET data == f.data[FilmIndex(f, x, y)]
  IN Color(Rat(data[1], 255), Rat(data[2], 255), Rat(data[3], 255))

FilmWritePixel(f, x, y, color) ==
  [f EXCEPT !.data = [f.data EXCEPT ![FilmIndex(f, x, y)] = color]]

\* x_stride(): size_of::<[u8; 4]>()
XStride == 4

\* data(): the pixels seen as one slice of data.len() * x_stride() bytes
FilmData(f) ==
  [i \in 1..(Len(f.data) * XStride) |->
     f.data[((i - 1) \div XStride) + 1][((i - 1) % XStride) + 1]]

(***************************************************************************)
(* The scenes handed to SceneEngine::translate, as far as the render       *)
(* engine sees them: how many camera nodes a scene holds (cams) and which  *)
(* radiance values Integrator::li returns for its rays (li).               *)
(***************************************************************************)
Black == Color(Rat(0, 1), Rat(0, 1), Rat(0, 1))
White == Color(Rat(1, 1), Rat(1, 1), Rat(1, 1))

CoreScenes == {[id |-> 1, cams |-> 0, li |-> {White}], [id |-> 2, cams |-> 1, li |-> {Black}]}

None == [none |-> TRUE]

(***************************************************************************)
(* raytrace/scene.rs, as far as the render engine sees it                  *)
(***************************************************************************)
\* the root is one Empty node
EmptyRoot == [id |-> 0, cams |-> 0, li |-> {White}]

SceneEngineNew == [cameras |-> <<>>, active_cam |-> 0, root |-> EmptyRoot]

\* translate_node pushes every camera node onto cameras and sets
\* active_cam = 0; translate then replaces the root
SceneTranslate(se, s) ==
  [cameras |-> se.cameras \o [i \in 1..s.cams |-> s.id],
   active_cam |-> IF s.cams > 0 THEN 0 ELSE se.active_cam,
   root |-> s]

\* integrator.li(&context.accelerator, ...): the values it can return
LiValues(accelerator) == accelerator.li

(***************************************************************************)
(* std::sync::RwLock<Film>                                                 *)
(***************************************************************************)
\* poisoned: a thread has panicked while it held the write guard
LockNew == [writer |-> 0, readers |-> {}, poisoned |-> FALSE]

\* write() returns once no writer and no reader holds the lock
WriteLockFree_IgnoresReaders(l) == l.writer = 0

WriteLockFree(l) == l.writer = 0 /\ l.readers = {}

\* try_read() can succeed only when no writer holds the lock
ReadLockFree(l) == l.writer = 0

(***************************************************************************)
(* raytrace/mod.rs: the calling thread                                     *)
(***************************************************************************)
ThreadUnborn ==
  [pc |-> "unborn", settings |-> None, accelerator |-> EmptyRoot, camera |-> 0,
   spp |-> 0, x |-> 0, y |-> 0, color |-> Black, writes |-> 0]

\* no scene has been given to the accelerator, no ray has been cast
GeoIdle ==
  /\ core_scene = <<>>
  /\ scene = None
  /\ accel = None
  /\ shape = None
  /\ ray = None
  /\ hit = None
  /\ build_loop = None

\* no call of PathIntegrator::li is in progress
LiIdle == li_stack = <<>> /\ li_result = None

\* no crate::core::Node has been made
NodeIdle ==
  /\ node_data = <<>>
  /\ node_call = None
  /\ json = None
  /\ de_nodes = None

\* no NDC sample, Film call or Arc is followed, nothing has been uploaded
ScreenIdle == ndc_call = None /\ texture = None /\ film_call = None /\ arcs = None

Init ==
  /\ GeoIdle
  /\ LiIdle
  /\ NodeIdle
  /\ ScreenIdle
  /\ settings \in [resolution : Resolutions, samples_per_pixel : SamplesPerPixel, max_bounce : {8}]
  /\ film = FilmNew(settings.resolution[1], settings.resolution[2])
  /\ film_lock = LockNew
  /\ threads = [t \in Threads |-> ThreadUnborn]
  /\ scene_engine = SceneEngineNew
  /\ context = None
  /\ main_pc = "running"

Translate(s) ==
  /\ main_pc = "running"
  /\ Len(scene_engine.cameras) + s.cams <= MaxCameras
  /\ scene_engine' = SceneTranslate(scene_engine, s)
  /\ UNCHANGED <<film, film_lock, threads, settings, context, main_pc, geo_vars, li_vars, node_vars, screen_vars>>

PrepareRender_NoCameraCheck ==
  /\ main_pc = "running"
  /\ context' = [settings |-> settings,
                 accelerator |-> scene_engine.root,
                 camera |-> IF scene_engine.active_cam < Len(scene_engine.cameras)
                            THEN scene_engine.cameras[scene_engine.active_cam + 1]
                            ELSE 0]
  /\ UNCHANGED <<film, film_lock, threads, settings, scene_engine, main_pc, geo_vars, li_vars, node_vars, screen_vars>>

\* scene.cameras[scene.active_cam] panics when the index is out of range
PrepareRender ==
  /\ main_pc = "running"
  /\ IF scene_engine.active_cam < Len(scene_engine.cameras)
     THEN /\ context' = [settings |-> settings,
                         accelerator |-> scene_engine.root,
                         camera |-> scene_engine.cameras[scene_engine.active_cam + 1]]
          /\ UNCHANGED main_pc
     ELSE /\ main_pc' = "panicked"
          /\ UNCHANGED context
  /\ UNCHANGED <<film, film_lock, threads, settings, scene_engine, geo_vars, li_vars, node_vars, screen_vars>>

\* the state of the closure when thread::spawn starts it
ThreadStart(ctx) ==
  [pc |-> IF /\ ctx.settings.samples_per_pixel >= 1
             /\ ctx.settings.resolution[1] >= 1
             /\ ctx.settings.resolution[2] >= 1
          THEN "sample" ELSE "done",
   settings |-> ctx.settings, accelerator |-> ctx.accelerator, camera |-> ctx.camera,
   spp |-> 1, x |-> 0, y |-> 0, color |-> Black, writes |-> 0]

SpawnThread_StopsEarlier(ths, t, ctx) ==
  [u \in Threads |->
     IF u = t THEN ThreadStart(ctx)
     ELSE IF ths[u].pc = "unborn" THEN ths[u] ELSE [ths[u] EXCEPT !.pc = "done"]]

\* thread::spawn: render_frame leaves every thread it spawned earlier alone
SpawnThread(ths, t, ctx) == [ths EXCEPT ![t] = ThreadStart(ctx)]

RenderFrame ==
  /\ main_pc = "running"
  /\ context # None
  /\ \E t \in Threads :
       /\ threads[t].pc = "unborn"
       /\ \A u \in Threads : u < t => threads[u].pc # "unborn"
       /\ threads' = SpawnThread(threads, t, context)
  /\ context' = None
  /\ UNCHANGED <<film, film_lock, settings, scene_engine, main_pc, geo_vars, li_vars, node_vars, screen_vars>>

(***************************************************************************)
(* raytrace/mod.rs: the render thread                                      *)
(***************************************************************************)
\* lines 91-98: jitter, camera ray, Integrator::li; no lock is held
Sample(t) ==
  /\ threads[t].pc = "sample"
  /\ \E c \in LiValues(threads[t].accelerator) :
       threads' = [threads EXCEPT ![t].color = c, ![t].pc = "lock"]
  /\ UNCHANGED <<film, film_lock, settings, scene_engine, context, main_pc, geo_vars, li_vars, node_vars, screen_vars>>

\* line 101: film_rw_lock.write().unwrap().  On a poisoned lock write()
\* is Err(PoisonError) and unwrap panics; the guard inside the error is
\* dropped by the unwinding.
AcquireWrite(t) ==
  /\ threads[t].pc = "lock"
  /\ WriteLockFree(film_lock)
  /\ IF film_lock.poisoned
     THEN /\ threads' = [threads EXCEPT ![t].pc = "panicked"]
          /\ UNCHANGED film_lock
     ELSE /\ film_lock' = [film_lock EXCEPT !.writer = t]
          /\ threads' = [threads EXCEPT ![t].pc = "locked"]
  /\ UNCHANGED <<film, settings, scene_engine, context, main_pc, geo_vars, li_vars, node_vars, screen_vars>>

AccPixel_NoSubtract(f, spp, x, y, color) ==
  IF spp = 1
  THEN color
  ELSE ColorAdd(FilmPixel(f, x, y), ColorDiv(color, spp))

AccPixel_FirstPassAdds(f, spp, x, y, color) ==
  LET p == FilmPixel(f, x, y)
  IN IF spp = 1
     THEN ColorAdd(p, color)
     ELSE ColorAdd(p, ColorDiv(ColorSub(color, p), spp))

\* lines 102-107: the running mean, read from the Film under the lock
AccPixel(f, spp, x, y, color) ==
  IF spp = 1
  THEN color
  ELSE LET p == FilmPixel(f, x, y)
       IN ColorAdd(p, ColorDiv(ColorSub(color, p), spp))

NextPixel_LiveSettings(th) ==
  LET w == settings.resolution[1]
      h == settings.resolution[2]
  IN IF th.x + 1 < w THEN [th EXCEPT !.x = th.x + 1, !.pc = "sample"]
     ELSE IF th.y + 1 < h THEN [th EXCEPT !.x = 0, !.y = th.y + 1, !.pc = "sample"]
     ELSE IF th.spp + 1 <= settings.samples_per_pixel
          THEN [th EXCEPT !.x = 0, !.y = 0, !.spp = th.spp + 1, !.pc = "sample"]
     ELSE [th EXCEPT !.pc = "done"]

NextPixel_ColumnMajor(th) ==
  LET w == th.settings.resolution[1]
      h == th.settings.resolution[2]
  IN IF th.y + 1 < h THEN [th EXCEPT !.y = th.y + 1, !.pc = "sample"]
     ELSE IF th.x + 1 < w THEN [th EXCEPT !.y = 0, !.x = th.x + 1, !.pc = "sample"]
     ELSE IF th.spp + 1 <= th.settings.samples_per_pixel
          THEN [th EXCEPT !.x = 0, !.y = 0, !.spp = th.spp + 1, !.pc = "sample"]
     ELSE [th EXCEPT !.pc = "done"]

\* the loop heads of lines 88-90, taken after a pixel is finished
NextPixel(th) ==
  LET w == th.settings.resolution[1]
      h == th.settings.resolution[2]
  IN IF th.x + 1 < w THEN [th EXCEPT !.x = th.x + 1, !.pc = "sample"]
     ELSE IF th.y + 1 < h THEN [th EXCEPT !.x = 0, !.y = th.y + 1, !.pc = "sample"]
     ELSE IF th.spp + 1 <= th.settings.samples_per_pixel
          THEN [th EXCEPT !.x = 0, !.y = 0, !.spp = th.spp + 1, !.pc = "sample"]
     ELSE [th EXCEPT !.pc = "done"]

\* the state of the lock when the write guard is dropped
UnlockWrite_KeepsLock(l) == l

UnlockWrite(l) == [l EXCEPT !.writer = 0]

\* film.rs lines 42 and 51: self.data[(y * self.dimension.0 + x) as usize]
FilmInBounds(f, x, y) == FilmIndex(f, x, y) <= Len(f.data)

\* lines 102-109: the pixel is read and written under the lock, and the
\* guard is dropped at the end of the block; writes counts the calls of
\* write_pixel the thread has made.  An index past the end of the Film's
\* Vec panics in film.pixel or film.write_pixel: the guard is dropped by
\* the unwinding, which poisons the lock.
WritePixel(t) ==
  LET th == threads[t]
  IN /\ th.pc = "locked"
     /\ IF FilmInBounds(film, th.x, th.y)
        THEN /\ film' = FilmWritePixel(film, th.x, th.y,
                                       ColorIntoU8x4(AccPixel(film, th.spp, th.x, th.y, th.color)))
             /\ film_lock' = UnlockWrite(film_lock)
             /\ threads' = [threads EXCEPT ![t] = [NextPixel(th) EXCEPT !.writes = @ + 1]]
        ELSE /\ film_lock' = [UnlockWrite(film_lock) EXCEPT !.poisoned = TRUE]
             /\ threads' = [threads EXCEPT ![t].pc = "panicked"]
             /\ UNCHANGED film
     /\ UNCHANGED <<settings, scene_engine, context, main_pc, geo_vars, li_vars, node_vars, screen_vars>>

(***************************************************************************)
(* lib.rs: RaytraceState::render, run by the calling thread once a frame   *)
(***************************************************************************)
\* film.try_read() is Ok: no writer holds the lock and it is not poisoned
DisplayTryRead ==
  /\ main_pc = "running"
  /\ ReadLockFree(film_lock)
  /\ ~film_lock.poisoned
  /\ film_lock' = [film_lock EXCEPT !.readers = {"main"}]
  /\ main_pc' = "reading"
  /\ UNCHANGED <<film, threads, settings, scene_engine, context, geo_vars, li_vars, node_vars, screen_vars>>

\* self.texture.update(film.data()) reads the Film under the read guard
\* (the texture belongs to the GPU layer), then the guard is dropped
DisplayUpload ==
  /\ main_pc = "reading"
  /\ film_lock' = [film_lock EXCEPT !.readers = {}]
  /\ main_pc' = "running"
  /\ UNCHANGED <<film, threads, settings, scene_engine, context, geo_vars, li_vars, node_vars, screen_vars>>

ThreadStep(t) == Sample(t) \/ AcquireWrite(t) \/ WritePixel(t)

\* a panic of the calling thread ends the process
Alive == main_pc # "panicked"

Next ==
  \/ \E s \in CoreScenes : Translate(s)
  \/ PrepareRender
  \/ RenderFrame
  \/ \E t \in Threads : Alive /\ ThreadStep(t)
  \/ DisplayTryRead
  \/ DisplayUpload

Spec == Init /\ [][Next]_vars

(***************************************************************************)
(* Properties of the render engine, checked under Spec.                    *)
(***************************************************************************)
Writing == {t \in Threads : threads[t].pc = "locked"}

\* C1: the Film is accessed by readers or by exactly one writer, never
\* both: at most one render thread is between write() and the drop of its
\* guard, and while one is, the display read is not in progress.
C1_ReadersXorOneWriter ==
  /\ Cardinality(Writing) <= 1
  /\ Writing # {} => main_pc # "reading"

\* a render thread holds the write lock while another one is blocked in write()
C1_WriterWithWaiter ==
  \E t, u \in Threads : t # u /\ threads[t].pc = "locked" /\ threads[u].pc = "lock"

\* C2: a render_frame call (the step that starts a thread) changes nothing
\* of a thread started earlier: it is neither stopped nor signalled, and
\* goes on writing to the same Film.
C2_RenderFrameLeavesEarlierThreads ==
  [][\A t \in Threads :
       (/\ threads[t].pc # "unborn"
        /\ \E u \in Threads : threads[u].pc = "unborn" /\ threads'[u].pc # "unborn")
       => threads'[t] = threads[t]]_vars

\* two overlapping renders, one of a black and one of a white scene, have
\* both finished and left a pixel that neither render alone produces
C2_InterleavedResult ==
  \E t, u \in Threads :
    /\ threads[t].pc = "done" /\ threads[t].accelerator.li = {Black}
    /\ threads[u].pc = "done" /\ threads[u].accelerator.li = {White}
    /\ threads[t].settings.samples_per_pixel = 2
    /\ film.data[1][1] \notin {0, 255}

\* C3: a render thread holds the Film write lock exactly while it is
\* between write() and the end of the block that writes one pixel: not
\* during ray generation and Integrator::li, not while it waits, and not
\* from one pixel to the next.
C3_LockHeldPerPixelWrite ==
  \A t \in Threads : (film_lock.writer = t) <=> (threads[t].pc = "locked")

\* the display holds the read lock in the middle of pass 2 of the only
\* render: pixel 0 carries pass 2, pixel 1 still carries pass 1
C3_ReaderSeesPartialPass ==
  /\ main_pc = "reading"
  /\ threads[1].pc \in {"sample", "lock"}
  /\ threads[1].spp = 2 /\ threads[1].x = 1
  /\ \A t \in Threads : t # 1 => threads[t].pc = "unborn"

\* C7: with zero cameras in the SceneEngine, prepare_render fails at the
\* call (the calling thread panics, no RenderContext comes back), so no
\* render thread exists and the Film is as Film::new left it.
C7_NoCameraNoRender ==
  /\ [](Len(scene_engine.cameras) = 0 =>
          /\ context = None
          /\ \A t \in Threads : threads[t].pc = "unborn"
          /\ film = FilmNew(settings.resolution[1], settings.resolution[2]))
  /\ [][(Len(scene_engine.cameras) = 0 /\ PrepareRender)
          => (main_pc' = "panicked" /\ UNCHANGED <<context, threads, film>>)]_vars

\* prepare_render was called on a SceneEngine without cameras
C7_PrepareFailed == main_pc = "panicked" /\ Len(scene_engine.cameras) = 0

(***************************************************************************)
(* One render of a scene whose every sample is the same colour c, on a     *)
(* 1 x 1 Film: the engine is built, the scene translated, and one          *)
(* prepare_render / render_frame pair runs to the end.                     *)
(***************************************************************************)
ColorDen == 4
MaxPasses == 3

\* the colours with channels 0, 1/ColorDen, ..., 1
GridColors ==
  {Color(Rat(r, ColorDen), Rat(g, ColorDen), Rat(b, ColorDen)) : r, g, b \in 0..ColorDen}

InitAccum ==
  /\ GeoIdle
  /\ LiIdle
  /\ NodeIdle
  /\ ScreenIdle
  /\ settings \in [resolution : {<<1, 1>>}, samples_per_pixel : 1..MaxPasses, max_bounce : {8}]
  /\ film = FilmNew(settings.resolution[1], settings.resolution[2])
  /\ film_lock = LockNew
  /\ threads = [t \in Threads |-> ThreadUnborn]
  /\ scene_engine = SceneEngineNew
  /\ context = None
  /\ main_pc = "running"

NextAccum ==
  \/ /\ scene_engine.cameras = <<>>
     /\ \E c \in GridColors : Translate([id |-> 3, cams |-> 1, li |-> {c}])
  \/ /\ context = None
     /\ \A t \in Threads : threads[t].pc = "unborn"
     /\ PrepareRender
  \/ RenderFrame
  \/ \E t \in Threads : ThreadStep(t)

SpecAccum == InitAccum /\ [][NextAccum]_vars

\* channel q of a colour, cut down to a multiple of 1/255
Floor255(q) == Rat((255 * q[1]) \div q[2], 255)

OnGrid255(q) == (255 * q[1]) % q[2] = 0

\* C4 as claimed: after the N >= 1 passes of a render of constant colour c,
\* Film.pixel equals c.
C4_PixelEqualsConstant ==
  \A t \in Threads :
    threads[t].pc = "done" =>
      \A c \in threads[t].accelerator.li : ColorEq(FilmPixel(film, 0, 0), c)

\* C4 as amended: after the N >= 1 passes of a render of constant colour c
\* with channels in [0,1], each channel of Film.pixel is that channel of c
\* cut down to a multiple of 1/255, floor(255 c)/255, whatever N is; it
\* equals c exactly when, and only when, 255 c is an integer in every
\* channel.
C4_PixelEqualsQuantizedConstant ==
  \A t \in Threads :
    threads[t].pc = "done" =>
      \A c \in threads[t].accelerator.li :
        /\ FilmPixel(film, 0, 0) = Color(Floor255(c.r), Floor255(c.g), Floor255(c.b))
        /\ ColorEq(FilmPixel(film, 0, 0), c)
             <=> (OnGrid255(c.r) /\ OnGrid255(c.g) /\ OnGrid255(c.b))

\* a render of more than one pass has finished on a colour off the 1/255 grid
C4_QuantizedAfterPasses ==
  \E t \in Threads :
    /\ threads[t].pc = "done"
    /\ threads[t].settings.samples_per_pixel >= 2
    /\ \E c \in threads[t].accelerator.li : ~OnGrid255(c.r)

(***************************************************************************)
(* Geometry.  glam::Vec3 / Vec3A values are triples of integers, a ray     *)
(* parameter t is a rational, and a point on a ray is a triple over a      *)
(* common positive denominator.  The f32 infinity is the rational 1/0,     *)
(* which the cross-multiplied comparisons above order after every finite   *)
(* value.                                                                  *)
(***************************************************************************)
Infinity == <<1, 0>>

\* the same rational with a denominator that is not negative
RNorm(q) == IF q[2] < 0 THEN <<-q[1], -q[2]>> ELSE q

RMin(p, q) == IF RLess(q, p) THEN q ELSE p

Abs(k) == IF k < 0 THEN -k ELSE k

Vec3(x, y, z) == <<x, y, z>>
VAdd(a, b) == <<a[1] + b[1], a[2] + b[2], a[3] + b[3]>>
VSub(a, b) == <<a[1] - b[1], a[2] - b[2], a[3] - b[3]>>
VNeg(a) == <<-a[1], -a[2], -a[3]>>
VScale(k, a) == <<k * a[1], k * a[2], k * a[3]>>
Dot(a, b) == a[1] * b[1] + a[2] * b[2] + a[3] * b[3]
Cross(a, b) ==
  <<a[2] * b[3] - a[3] * b[2], a[3] * b[1] - a[1] * b[3], a[1] * b[2] - a[2] * b[1]>>
LengthSquared(a) == Dot(a, a)

Zero3 == <<0, 0, 0>>

\* a vector v / den with den > 0; unit says that it stands for the unit
\* vector along v, the result of glam's normalize()
QVec(v, den) == [v |-> v, den |-> den, unit |-> FALSE]
Normalize(q) == [q EXCEPT !.unit = TRUE]

\* q . w up to a positive factor: the sign is the sign of the dot product
SignDot(q, w) == Dot(q.v, w)

\* floor of the square root, by bisection; f32::sqrt is exact on the
\* perfect squares, and the inputs of the model keep det a perfect square
RECURSIVE ISqrtIn(_, _, _)
ISqrtIn(n, lo, hi) ==
  IF lo >= hi THEN lo
  ELSE LET mid == (lo + hi + 1) \div 2
       IN IF mid * mid <= n THEN ISqrtIn(n, mid, hi) ELSE ISqrtIn(n, lo, mid - 1)

Sqrt(n) == ISqrtIn(n, 0, n)

IsSquare(n) == n >= 0 /\ Sqrt(n) * Sqrt(n) = n

(***************************************************************************)
(* glam::Affine3A: a 3x3 matrix, given by its columns, and a translation.  *)
(* The transforms of the model have integer entries and determinant 1 or   *)
(* -1, so that the inverse has integer entries too.                        *)
(***************************************************************************)
Affine(x_axis, y_axis, z_axis, translation) ==
  [x_axis |-> x_axis, y_axis |-> y_axis, z_axis |-> z_axis, translation |-> translation]

AffineIdentity == Affine(<<1, 0, 0>>, <<0, 1, 0>>, <<0, 0, 1>>, Zero3)

AffineFromTranslation(v) == Affine(<<1, 0, 0>>, <<0, 1, 0>>, <<0, 0, 1>>, v)

TransformVector3(m, v) ==
  VAdd(VAdd(VScale(v[1], m.x_axis), VScale(v[2], m.y_axis)), VScale(v[3], m.z_axis))

TransformPoint3(m, p) == VAdd(TransformVector3(m, p), m.translation)

Determinant(m) == Dot(m.x_axis, Cross(m.y_axis, m.z_axis))

\* the rows of the inverse matrix are the cross products of the columns
\* over the determinant; the translation is mapped through it and negated
AffineInverse(m) ==
  LET det == Determinant(m)
      r1 == Cross(m.y_axis, m.z_axis)
      r2 == Cross(m.z_axis, m.x_axis)
      r3 == Cross(m.x_axis, m.y_axis)
      inv == [x_axis |-> <<r1[1] \div det, r2[1] \div det, r3[1] \div det>>,
              y_axis |-> <<r1[2] \div det, r2[2] \div det, r3[2] \div det>>,
              z_axis |-> <<r1[3] \div det, r2[3] \div det, r3[3] \div det>>]
  IN Affine(inv.x_axis, inv.y_axis, inv.z_axis, VNeg(TransformVector3(inv, m.translation)))

(***************************************************************************)
(* math/ray.rs                                                             *)
(***************************************************************************)
RayNew(origin, direction) ==
  [origin |-> origin, direction |-> direction, t_min |-> Rat(0, 1), t_max |-> Infinity]

TransformRay(transform, r) ==
  [r EXCEPT !.origin = TransformPoint3(transform, r.origin),
            !.direction = TransformVector3(transform, r.direction)]

\* origin + t * direction
RayAt(r, t) == QVec(VAdd(VScale(t[2], r.origin), VScale(t[1], r.direction)), t[2])

(***************************************************************************)
(* The bvh crate, by its contract: an AABB is [min, max]; BVH::traverse    *)
(* returns the shapes whose AABB the ray (t >= 0) meets.  The slab test    *)
(* is taken exactly.                                                       *)
(***************************************************************************)
AABBWithBounds(min, max) == [min |-> min, max |-> max]

MinOf(S) == CHOOSE m \in S : \A k \in S : m <= k
MaxOf(S) == CHOOSE m \in S : \A k \in S : m >= k

\* the smallest box around a non-empty set of points
AABBOfPoints(P) ==
  AABBWithBounds([i \in 1..3 |-> MinOf({p[i] : p \in P})],
                 [i \in 1..3 |-> MaxOf({p[i] : p \in P})])

\* AABB::join over a non-empty set of boxes
AABBJoin(B) == AABBOfPoints({b.min : b \in B} \cup {b.max : b \in B})

\* the t at which the ray enters (lo) and leaves (hi) the slab of axis i
SlabEnter(r, box, i) ==
  IF r.direction[i] > 0
  THEN Rat(box.min[i] - r.origin[i], r.direction[i])
  ELSE RNorm(Rat(box.max[i] - r.origin[i], r.direction[i]))

SlabLeave(r, box, i) ==
  IF r.direction[i] > 0
  THEN Rat(box.max[i] - r.origin[i], r.direction[i])
  ELSE RNorm(Rat(box.min[i] - r.origin[i], r.direction[i]))

RayIntersectsAABB(r, box) ==
  LET moving == {i \in 1..3 : r.direction[i] # 0}
  IN /\ \A i \in (1..3) \ moving :
          box.min[i] <= r.origin[i] /\ r.origin[i] <= box.max[i]
     /\ \A i \in moving : RLeq(Rat(0, 1), SlabLeave(r, box, i))
     /\ \A i, j \in moving : RLeq(SlabEnter(r, box, i), SlabLeave(r, box, j))

(***************************************************************************)
(* raytrace/hit.rs and raytrace/shape.rs.  Of a Hit the model keeps the    *)
(* primitive, the shape, p, t, ng and front; the shading frame (ns, uv,    *)
(* dpdu, dpdv) is written by the kernels and read by no property here.     *)
(***************************************************************************)
HitDefault ==
  [primitive |-> None, shape |-> None, p |-> QVec(Zero3, 1), t |-> Infinity,
   ng |-> QVec(Zero3, 1), front |-> FALSE]

Sphere(center, radius) == [kind |-> "Sphere", center |-> center, radius |-> radius]

Triangle(mesh, id) == [kind |-> "Triangle", mesh |-> mesh, id |-> id]

\* t < ray.t_min || ray.t_max < t
OutOfRange(r, t) == RLess(t, r.t_min) \/ RLess(r.t_max, t)

SphereRoot_LargerFirst(sphere, r) ==
  LET oc == VSub(r.origin, sphere.center)
      a == LengthSquared(r.direction)
      half_b == Dot(oc, r.direction)
      c == LengthSquared(oc) - sphere.radius * sphere.radius
      det == half_b * half_b - a * c
      sqrtd == Sqrt(det)
      t1 == Rat(-half_b - sqrtd, a)
      t2 == Rat(-half_b + sqrtd, a)
  IN IF det < 0 THEN [ok |-> FALSE, t |-> Infinity]
     ELSE IF ~OutOfRange(r, t2) THEN [ok |-> TRUE, t |-> t2]
     ELSE IF ~OutOfRange(r, t1) THEN [ok |-> TRUE, t |-> t1]
     ELSE [ok |-> FALSE, t |-> Infinity]

\* Sphere::intersect up to the choice of the root: TRUE and the root, or FALSE
SphereRoot(sphere, r) ==
  LET oc == VSub(r.origin, sphere.center)
      a == LengthSquared(r.direction)
      half_b == Dot(oc, r.direction)
      c == LengthSquared(oc) - sphere.radius * sphere.radius
      det == half_b * half_b - a * c
      sqrtd == Sqrt(det)
      t1 == Rat(-half_b - sqrtd, a)
      t2 == Rat(-half_b + sqrtd, a)
  IN IF det < 0 THEN [ok |-> FALSE, t |-> Infinity]
     ELSE IF ~OutOfRange(r, t1) THEN [ok |-> TRUE, t |-> t1]
     ELSE IF ~OutOfRange(r, t2) THEN [ok |-> TRUE, t |-> t2]
     ELSE [ok |-> FALSE, t |-> Infinity]

\* the rays on which f32::sqrt of det is exact
SqrtExact(sphere, r) ==
  LET oc == VSub(r.origin, sphere.center)
      a == LengthSquared(r.direction)
      half_b == Dot(oc, r.direction)
      c == LengthSquared(oc) - sphere.radius * sphere.radius
      det == half_b * half_b - a * c
  IN det < 0 \/ IsSquare(det)

\* p - center, for a point p over a denominator
QSubPoint(p, center) == QVec(VSub(p.v, VScale(p.den, center)), p.den)

SphereIntersect(sphere, r, h) ==
  LET root == SphereRoot(sphere, r)
      p == RayAt(r, root.t)
      ng == Normalize(QSubPoint(p, sphere.center))
  IN IF ~root.ok THEN [ok |-> FALSE, hit |-> h]
     ELSE [ok |-> TRUE,
           hit |-> [h EXCEPT !.p = p, !.t = RMin(root.t, h.t), !.ng = ng,
                             !.front = SignDot(ng, VNeg(r.direction)) > 0]]

\* Triangle::points
TrianglePoints(tri) ==
  [k \in 1..3 |-> tri.mesh.points[tri.mesh.indices[tri.id * 3 + k] + 1]]

\* the plane and inside-outside tests shared by the two triangle kernels:
\* TRUE with t and p, or FALSE.  The asserts on u and v (lines 211-212)
\* hold in exact arithmetic: past the three edge tests u and v are ratios
\* of areas inside the triangle.
TrianglePlaneHit(pts, r) ==
  LET p0 == pts[1]
      p1 == pts[2]
      p2 == pts[3]
      ng == Cross(VSub(p1, p0), VSub(p2, p0))
      n_dot_ray == Dot(ng, r.direction)
      d == -Dot(ng, p0)
      t == RNorm(Rat(-(Dot(ng, r.origin) + d), n_dot_ray))
      p == RayAt(r, t)
      Side(a, b) == Dot(ng, Cross(VSub(b, a), QSubPoint(p, a).v))
      miss == [ok |-> FALSE, t |-> Infinity, p |-> QVec(Zero3, 1), ng |-> ng]
  IN IF RLess(Rat(Abs(n_dot_ray), 1), Rat(1, 10000)) THEN miss
     ELSE IF OutOfRange(r, t) THEN miss
     ELSE IF Side(p0, p1) < 0 THEN miss
     ELSE IF Side(p1, p2) < 0 THEN miss
     ELSE IF Side(p2, p0) < 0 THEN miss
     ELSE [ok |-> TRUE, t |-> t, p |-> p, ng |-> ng]

TriangleIntersect(tri, r, h) ==
  LET ph == TrianglePlaneHit(TrianglePoints(tri), r)
      ng == QVec(ph.ng, 1)
  IN IF ~ph.ok THEN [ok |-> FALSE, hit |-> h]
     ELSE [ok |-> TRUE,
           hit |-> [h EXCEPT !.p = ph.p, !.t = RMin(ph.t, h.t), !.ng = ng,
                             !.front = SignDot(ng, VNeg(r.direction)) > 0]]

\* Shape::intersect
ShapeIntersect(s, r, h) ==
  IF s.kind = "Sphere" THEN SphereIntersect(s, r, h) ELSE TriangleIntersect(s, r, h)

\* Shape::aabb
ShapeAABB(s) ==
  IF s.kind = "Sphere"
  THEN AABBWithBounds(VSub(s.center, <<s.radius, s.radius, s.radius>>),
                      VAdd(s.center, <<s.radius, s.radius, s.radius>>))
  ELSE LET pts == TrianglePoints(s) IN AABBOfPoints({pts[1], pts[2], pts[3]})

(***************************************************************************)
(* rt/shape.rs: the kernels of the rt variant                              *)
(***************************************************************************)
RtHitDefault ==
  [shape |-> None, p |-> QVec(Zero3, 1), t |-> Infinity, ng |-> QVec(Zero3, 1),
   front |-> FALSE]

RtTriangle(p0, p1, p2) == [kind |-> "RtTriangle", vertices |-> <<p0, p1, p2>>]

RtSphereIntersect(sphere, r, h) ==
  LET root == SphereRoot(sphere, r)
      ng == Normalize(QSubPoint(RayAt(r, root.t), sphere.center))
  IN IF ~root.ok THEN [ok |-> FALSE, hit |-> h]
     ELSE [ok |-> TRUE,
           hit |-> [h EXCEPT !.t = RMin(root.t, h.t), !.ng = ng,
                             !.front = SignDot(ng, r.direction) > 0]]

RtTriangleIntersect(tri, r, h) ==
  LET ph == TrianglePlaneHit(tri.vertices, r)
      ng == Normalize(QVec(ph.ng, 1))
  IN IF ~ph.ok THEN [ok |-> FALSE, hit |-> h]
     ELSE [ok |-> TRUE,
           hit |-> [h EXCEPT !.shape = tri, !.p = ph.p, !.t = RMin(ph.t, h.t), !.ng = ng,
                             !.front = SignDot(ng, VNeg(r.direction)) > 0]]

(***************************************************************************)
(* raytrace/scene.rs: translate_node on the nodes of a core scene.  A      *)
(* node tree is kept as the sequence of its nodes in breadth-first order,  *)
(* the order in which Accelerator::build visits them.  A core node is      *)
(* [transform, component, ...]: its Transform and the one component        *)
(* translate_node looks for.                                               *)
(***************************************************************************)
GeomSphereNode(transform, radius) ==
  [component |-> "GeomSphere", transform |-> transform, radius |-> radius]

\* prefabs::Mesh::new(vertices, normals, uvs, indices); indices is None or
\* [some |-> a sequence of vertex numbers]
MeshNode(transform, vertices, indices) ==
  [component |-> "Mesh", transform |-> transform, vertices |-> vertices,
   indices |-> indices]

CameraNode(transform) == [component |-> "Camera", transform |-> transform]

EmptyNode == [component |-> "None"]

Some(v) == [some |-> v]

\* lines 52-58: the index list and the triangle count of the TriangleMesh
MeshIndices(vertices, indices) ==
  IF indices # None
  THEN [indices |-> indices.some, tri_count |-> Len(indices.some) \div 3]
  ELSE [indices |-> [i \in 1..Len(vertices) |-> i - 1],
        tri_count |-> Len(vertices) \div 3]

TriangleMesh(points, indices, tri_count, object_to_world, world_to_object) ==
  [points |-> points, indices |-> indices, tri_count |-> tri_count,
   object_to_world |-> object_to_world, world_to_object |-> world_to_object]

\* lines 40-99: the Primitive of one node
TranslateNode(node) ==
  IF node.component = "GeomSphere"
  THEN [kind |-> "Sphere", center |-> node.transform.translation, radius |-> node.radius]
  ELSE IF node.component = "Mesh"
  THEN LET ic == MeshIndices(node.vertices, node.indices)
       IN [kind |-> "TriangleMesh",
           mesh |-> TriangleMesh(node.vertices, ic.indices, ic.tri_count,
                                 node.transform, AffineInverse(node.transform))]
  ELSE IF node.component = "Camera"
  THEN [kind |-> "Camera"]
  ELSE [kind |-> "Empty"]

(***************************************************************************)
(* raytrace/accelerator.rs                                                 *)
(***************************************************************************)
\* lines 68-90: the L2 nodes of one primitive
L2Nodes(prim) ==
  IF prim.kind = "Sphere" THEN <<Sphere(prim.center, prim.radius)>>
  ELSE IF prim.kind = "TriangleMesh"
  THEN [i \in 1..prim.mesh.tri_count |-> Triangle(prim.mesh, i - 1)]
  ELSE <<>>

\* lines 65-82: the bound joins the AABBs of the L2 shapes as they are,
\* in the object space of the primitive
L1Node(prim) ==
  LET l2nodes == L2Nodes(prim)
  IN [bound |-> AABBJoin({ShapeAABB(l2nodes[i]) : i \in 1..Len(l2nodes)}),
      primitive |-> prim,
      l2nodes |-> l2nodes]

\* Accelerator::build: one L1 node for every primitive that has L2 nodes
AccelBuild(prims) ==
  LET with_shapes == SelectSeq(prims, LAMBDA prim : L2Nodes(prim) # <<>>)
  IN [l1nodes |-> [i \in 1..Len(with_shapes) |-> L1Node(with_shapes[i])]]

L1Bound(l1) == l1.bound

L2Bound(l2) == ShapeAABB(l2)

\* BVH::traverse over the L1 nodes and over the L2 nodes of one L1 node:
\* the nodes whose AABB the ray meets, in the order of the Vec
TraverseL1(nodes, r) == SelectSeq(nodes, LAMBDA n : RayIntersectsAABB(r, L1Bound(n)))

TraverseL2(nodes, r) == SelectSeq(nodes, LAMBDA n : RayIntersectsAABB(r, L2Bound(n)))

CloserHit_OrEqual(st, l1, l2, r) ==
  LET tmp == ShapeIntersect(l2, r, HitDefault)
  IN IF tmp.ok /\ tmp.hit.front
     THEN IF RLeq(tmp.hit.t, st.closest_hit)
          THEN [any_hit |-> TRUE, closest_hit |-> tmp.hit.t,
                hit |-> [tmp.hit EXCEPT !.primitive = l1.primitive, !.shape = l2]]
          ELSE [st EXCEPT !.any_hit = TRUE]
     ELSE st

\* lines 128-139 for one L2 candidate: st is [any_hit, closest_hit, hit]
CloserHit(st, l1, l2, r) ==
  LET tmp == ShapeIntersect(l2, r, HitDefault)
  IN IF tmp.ok /\ tmp.hit.front
     THEN IF RLess(tmp.hit.t, st.closest_hit)
          THEN [any_hit |-> TRUE, closest_hit |-> tmp.hit.t,
                hit |-> [tmp.hit EXCEPT !.primitive = l1.primitive, !.shape = l2]]
          ELSE [st EXCEPT !.any_hit = TRUE]
     ELSE st

RECURSIVE L2Loop(_, _, _, _)
L2Loop(l2s, st, l1, r) ==
  IF l2s = <<>> THEN st
  ELSE L2Loop(Tail(l2s), CloserHit(st, l1, Head(l2s), r), l1, r)

\* lines 119-140: the loop over the L1 candidates.  A candidate that is
\* not a TriangleMesh reaches todo!(), which panics.
RECURSIVE L1Loop(_, _, _)
L1Loop(l1s, st, r) ==
  IF l1s = <<>> THEN [panic |-> FALSE, any_hit |-> st.any_hit, hit |-> st.hit]
  ELSE LET l1 == Head(l1s)
       IN IF l1.primitive.kind # "TriangleMesh"
          THEN [panic |-> TRUE, any_hit |-> FALSE, hit |-> st.hit]
          ELSE LET object_ray == TransformRay(l1.primitive.mesh.world_to_object, r)
                   l2s == TraverseL2(l1.l2nodes, object_ray)
               IN L1Loop(Tail(l1s), L2Loop(l2s, st, l1, object_ray), r)

\* Accelerator::intersect(ray, hit)
AccelIntersect(acc, r, h) ==
  L1Loop(TraverseL1(acc.l1nodes, r),
         [any_hit |-> FALSE, closest_hit |-> Infinity, hit |-> h], r)

(***************************************************************************)
(* The accelerator on its own: a core scene is translated, the             *)
(* Accelerator is built from the translated tree (prepare_render, line     *)
(* 67) and one ray is cast into it (Integrator::li, line 37).              *)
(***************************************************************************)
TranslateGeo ==
  /\ core_scene # <<>>
  /\ scene = None
  /\ scene' = Some([i \in 1..Len(core_scene) |-> TranslateNode(core_scene[i])])
  /\ UNCHANGED <<build_loop, core_scene, accel, shape, ray, hit, engine_vars, li_vars, node_vars, screen_vars>>

Build ==
  /\ scene # None
  /\ accel = None
  /\ accel' = AccelBuild(scene.some)
  /\ UNCHANGED <<build_loop, core_scene, scene, shape, ray, hit, engine_vars, li_vars, node_vars, screen_vars>>

Intersect ==
  /\ accel # None
  /\ hit = None
  /\ hit' = AccelIntersect(accel, ray, HitDefault)
  /\ UNCHANGED <<build_loop, core_scene, scene, accel, shape, ray, engine_vars, li_vars, node_vars, screen_vars>>

NextIsect == TranslateGeo \/ Build \/ Intersect

\* the engine as RenderEngine::new leaves it, with the default settings
\* but a Film of one pixel
EngineIdle ==
  /\ settings = [resolution |-> <<1, 1>>, samples_per_pixel |-> 1, max_bounce |-> 8]
  /\ film = FilmNew(settings.resolution[1], settings.resolution[2])
  /\ film_lock = LockNew
  /\ threads = [t \in Threads |-> ThreadUnborn]
  /\ scene_engine = SceneEngineNew
  /\ context = None
  /\ main_pc = "running"

\* two triangles facing +z, one at z = -2 and one behind it at z = -3
TriA == <<Vec3(-1, -1, -2), Vec3(1, -1, -2), Vec3(0, 1, -2)>>
TriB == <<Vec3(-1, -1, -3), Vec3(1, -1, -3), Vec3(0, 1, -3)>>

\* a quarter turn about the y axis
QuarterTurnY == Affine(<<0, 0, -1>>, <<0, 1, 0>>, <<1, 0, 0>>, Zero3)

\* the two-sphere scene, in units of 1/2: centre (0,0,-1) radius 0.5 and
\* centre (0,-100.5,-1) radius 100
TwoSphereScene ==
  <<GeomSphereNode(AffineFromTranslation(Vec3(0, 0, -2)), 1),
    GeomSphereNode(AffineFromTranslation(Vec3(0, -201, -2)), 200)>>

GeoCoreScenes ==
  {TwoSphereScene,
   <<EmptyNode, CameraNode(AffineIdentity), MeshNode(AffineIdentity, TriB \o TriA, None)>>,
   <<MeshNode(AffineFromTranslation(Vec3(4, 0, 0)), TriA, Some(<<0, 1, 2>>))>>,
   <<MeshNode(AffineFromTranslation(Vec3(0, 0, -1)), TriA, None)>>,
   <<MeshNode(AffineIdentity, TriA, None),
     GeomSphereNode(AffineFromTranslation(Vec3(0, 0, -5)), 1)>>,
   <<MeshNode(QuarterTurnY, TriA, Some(<<0, 1, 2>>))>>,
   <<MeshNode(AffineIdentity, TriA, Some(<<0, 2, 1>>))>>}

GeoRays ==
  {RayNew(o, d) : o \in {Zero3, Vec3(4, 0, 0)},
                  d \in {Vec3(0, 0, -1), Vec3(0, 0, 1), Vec3(-1, 0, 0), Vec3(0, 0, -2)}}

\* every sphere of the core scene has an exact square root on the ray
SqrtExactOnScene(nodes, r) ==
  \A i \in 1..Len(nodes) :
    nodes[i].component = "GeomSphere" =>
      SqrtExact(Sphere(nodes[i].transform.translation, nodes[i].radius), r)

InitIsect ==
  /\ EngineIdle
  /\ LiIdle
  /\ NodeIdle
  /\ ScreenIdle
  /\ core_scene \in GeoCoreScenes
  /\ ray \in {r \in GeoRays : SqrtExactOnScene(core_scene, r)}
  /\ scene = None
  /\ accel = None
  /\ shape = None
  /\ hit = None
  /\ build_loop = None

SpecIsect == InitIsect /\ [][NextIsect]_vars

\* the linear scan: every shape of every primitive is intersected, a
\* sphere with the ray as it is and a triangle with the ray taken to its
\* mesh's object space, and the closest front-facing hit is kept
RECURSIVE LinearScanFrom(_, _, _)
LinearScanFrom(prims, st, r) ==
  IF prims = <<>> THEN [panic |-> FALSE, any_hit |-> st.any_hit, hit |-> st.hit]
  ELSE LET prim == Head(prims)
           object_ray == IF prim.kind = "TriangleMesh"
                         THEN TransformRay(prim.mesh.world_to_object, r)
                         ELSE r
       IN LinearScanFrom(Tail(prims),
                         L2Loop(L2Nodes(prim), st, [primitive |-> prim], object_ray), r)

LinearScan(prims, r) ==
  LinearScanFrom(prims, [any_hit |-> FALSE, closest_hit |-> Infinity, hit |-> HitDefault], r)

\* C5 as claimed: Accelerator.intersect returns what the linear scan
\* returns: the same hit/miss answer and, on a hit, the same shape and t.
C5_IntersectEqualsLinearScan ==
  hit # None =>
    LET scan == LinearScan(scene.some, ray)
    IN /\ ~hit.panic
       /\ hit.any_hit = scan.any_hit
       /\ hit.any_hit => (hit.hit.shape = scan.hit.shape /\ REq(hit.hit.t, scan.hit.t))

\* C6 as claimed: in the two-sphere scene the ray from the origin toward
\* the small sphere yields a hit with front = true and t equal to the
\* quadratic-formula root (the sphere candidate is traversed with the ray
\* untransformed).
C6_SphereCandidateYieldsHit ==
  (core_scene = TwoSphereScene /\ ray = RayNew(Zero3, Vec3(0, 0, -1)) /\ hit # None) =>
    /\ ~hit.panic
    /\ hit.any_hit
    /\ hit.hit.front
    /\ REq(hit.hit.t, SphereRoot(Sphere(Vec3(0, 0, -2), 1), ray).t)

(***************************************************************************)
(* Meshes of any vertex count and any index list, translated and built.    *)
(***************************************************************************)
MaxVertices == 4
MaxIndices == 4

\* vertex i of the meshes: triangles like TriA, one unit further each
MeshVertex(i) ==
  Vec3(IF i % 3 = 0 THEN -1 ELSE IF i % 3 = 1 THEN 1 ELSE 0,
       IF i % 3 = 2 THEN 1 ELSE -1,
       -2 - (i \div 3))

\* the index lists a mesh of n vertices can carry: none, or up to
\* MaxIndices vertex numbers
IndexLists(n) ==
  {None} \cup {Some(s) : s \in UNION {[1..k -> 0..(n - 1)] : k \in 0..MaxIndices}}

InitMesh ==
  /\ EngineIdle
  /\ LiIdle
  /\ NodeIdle
  /\ ScreenIdle
  /\ \E n \in 0..MaxVertices : \E ix \in IndexLists(n) :
       core_scene = <<MeshNode(AffineIdentity, [i \in 1..n |-> MeshVertex(i - 1)], ix)>>
  /\ ray = RayNew(Zero3, Vec3(0, 0, -1))
  /\ scene = None
  /\ accel = None
  /\ shape = None
  /\ hit = None
  /\ build_loop = None

SpecMesh == InitMesh /\ [][NextIsect]_vars

\* C10 as claimed: every translated TriangleMesh has
\* indices.len() = 3 * tri_count, and every Triangle of the built
\* accelerator has id < tri_count.
C10_IndicesMatchTriCount ==
  /\ scene # None =>
       \A i \in 1..Len(scene.some) :
         scene.some[i].kind = "TriangleMesh" =>
           Len(scene.some[i].mesh.indices) = 3 * scene.some[i].mesh.tri_count
  /\ accel # None =>
       \A i \in 1..Len(accel.l1nodes) :
         \A j \in 1..Len(accel.l1nodes[i].l2nodes) :
           LET l2 == accel.l1nodes[i].l2nodes[j]
           IN l2.kind = "Triangle" => l2.id < l2.mesh.tri_count

(***************************************************************************)
(* The shape kernels on their own: one shape, one ray, one call.           *)
(***************************************************************************)
KernelMesh == TriangleMesh(TriA \o TriB, <<0, 1, 2, 3, 5, 4>>, 2, AffineIdentity, AffineIdentity)

KernelShapes ==
  {Sphere(Vec3(0, 0, -3), 1), Sphere(Zero3, 2), Sphere(Vec3(4, 0, 0), 1),
   Triangle(KernelMesh, 0), Triangle(KernelMesh, 1),
   RtTriangle(TriA[1], TriA[2], TriA[3]), RtTriangle(TriB[1], TriB[3], TriB[2])}

InitKernel ==
  /\ EngineIdle
  /\ LiIdle
  /\ NodeIdle
  /\ ScreenIdle
  /\ core_scene = <<>>
  /\ scene = None
  /\ accel = None
  /\ shape \in KernelShapes
  /\ ray \in {r \in GeoRays : shape.kind = "Sphere" => SqrtExact(shape, r)}
  /\ hit = None
  /\ build_loop = None

\* the result of a kernel: which kernel ran, what it returned, and the Hit
KernelCall(kernel, res) == [kernel |-> kernel, ok |-> res.ok, hit |-> res.hit]

RaytraceSphere ==
  /\ shape # None /\ shape.kind = "Sphere" /\ hit = None
  /\ hit' = KernelCall("raytrace::Sphere", SphereIntersect(shape, ray, HitDefault))
  /\ UNCHANGED <<build_loop, core_scene, scene, accel, shape, ray, engine_vars, li_vars, node_vars, screen_vars>>

RaytraceTriangle ==
  /\ shape # None /\ shape.kind = "Triangle" /\ hit = None
  /\ hit' = KernelCall("raytrace::Triangle", TriangleIntersect(shape, ray, HitDefault))
  /\ UNCHANGED <<build_loop, core_scene, scene, accel, shape, ray, engine_vars, li_vars, node_vars, screen_vars>>

RtSphere ==
  /\ shape # None /\ shape.kind = "Sphere" /\ hit = None
  /\ hit' = KernelCall("rt::Sphere", RtSphereIntersect(shape, ray, RtHitDefault))
  /\ UNCHANGED <<build_loop, core_scene, scene, accel, shape, ray, engine_vars, li_vars, node_vars, screen_vars>>

RtTriangleKernel ==
  /\ shape # None /\ shape.kind = "RtTriangle" /\ hit = None
  /\ hit' = KernelCall("rt::Triangle", RtTriangleIntersect(shape, ray, RtHitDefault))
  /\ UNCHANGED <<build_loop, core_scene, scene, accel, shape, ray, engine_vars, li_vars, node_vars, screen_vars>>

NextKernel == RaytraceSphere \/ RaytraceTriangle \/ RtSphere \/ RtTriangleKernel

SpecKernel == InitKernel /\ [][NextKernel]_vars

\* C8 as claimed: after every successful intersection, of every kernel,
\* hit.front is true exactly when hit.ng . (-ray.direction) > 0.
C8_FrontIffNormalFacesRay ==
  (hit # None /\ hit.ok) =>
    (hit.hit.front <=> SignDot(hit.hit.ng, VNeg(ray.direction)) > 0)

(***************************************************************************)
(* raytrace/integrator.rs: PathIntegrator::li as a stack of activations.   *)
(* What Accelerator::intersect and the sampled BSDF give for a ray depends *)
(* on the scene and on the random numbers: both are free choices here.     *)
(* An activation is [bounce, pc, ray, found, weight, value]; pc is         *)
(* "intersect" (line 37 is next), "sample" (line 44 is next), "call" (it   *)
(* waits in line 61 for the activation above it) or "return"; found is     *)
(* found_intersection, "pending" until line 37 has run.                    *)
(***************************************************************************)
MaxBounce == 3

ColorMul(a, b) == Color(RMul(a.r, b.r), RMul(a.g, b.g), RMul(a.b, b.b))
ColorScale(a, q) == Color(RMul(a.r, q), RMul(a.g, q), RMul(a.b, q))

\* Lambertian::default
DiffuseColor == Color(Rat(4, 5), Rat(4, 5), Rat(4, 5))

\* sky_color: the blend is taken on ray.direction.y
SkyColor(r) ==
  LET t == Rat(r.direction[2] + 1, 2)
  IN ColorAdd(ColorScale(White, RSub(Rat(1, 1), t)),
              ColorScale(Color(Rat(1, 2), Rat(7, 10), Rat(1, 1)), t))

\* the rays li is given: the directions along which the sky differs
LiDirections == {Vec3(0, 1, 0), Vec3(0, 0, -1)}

\* what Lambertian::sample can give: black with pdf 0 when wi is not on
\* the side of the normal, else the diffuse colour, a direction wi and a
\* pdf that is a positive multiple of the cosine wi . ns
BsdfSamples ==
  {[f |-> Black, pdf |-> Rat(0, 1), wi |-> Zero3, cosine |-> Rat(0, 1)]}
  \cup {[f |-> DiffuseColor, pdf |-> c, wi |-> d, cosine |-> c] :
          c \in {Rat(1, 2), Rat(1, 1)}, d \in LiDirections}

Activation(bounce, r) ==
  [bounce |-> bounce, pc |-> "intersect", ray |-> r, found |-> "pending",
   weight |-> Black, value |-> Black]

Top == li_stack[Len(li_stack)]

SetTop(frame) == [li_stack EXCEPT ![Len(li_stack)] = frame]

\* return v from the innermost activation
Return(v) == SetTop([Top EXCEPT !.pc = "return", !.value = v])

\* line 40 with > for >=
LiCapReached_OneLater(bounce, max_bounce) == bounce > max_bounce

\* line 40: bounce >= self.max_bounce
LiCapReached(bounce, max_bounce) == bounce >= max_bounce

\* mod.rs line 97: integrator.li(&context.accelerator, &mut sampler, ray, 0)
LiCall ==
  /\ li_stack = <<>>
  /\ li_result = None
  /\ \E d \in LiDirections : li_stack' = <<Activation(0, RayNew(Zero3, d))>>
  /\ UNCHANGED <<li_result, engine_vars, geo_vars, node_vars, screen_vars>>

\* lines 38-42 with the two tests in the other order
LiBranch_CapFirst(found, bounce, r, max_bounce) ==
  IF LiCapReached(bounce, max_bounce) THEN [pc |-> "return", value |-> Black]
  ELSE IF found = "miss" THEN [pc |-> "return", value |-> SkyColor(r)]
  ELSE [pc |-> "sample", value |-> Black]

\* lines 38-42: where the activation goes after line 37, and with what
LiBranch(found, bounce, r, max_bounce) ==
  IF found = "miss" THEN [pc |-> "return", value |-> SkyColor(r)]
  ELSE IF LiCapReached(bounce, max_bounce) THEN [pc |-> "return", value |-> Black]
  ELSE [pc |-> "sample", value |-> Black]

\* lines 36-42.  Accelerator::intersect finds a hit, finds none, or
\* panics (accelerator.rs line 123), which unwinds every activation.
LiIntersect ==
  /\ li_stack # <<>>
  /\ Top.pc = "intersect"
  /\ \E found \in {"hit", "miss", "panic"} :
       IF found = "panic"
       THEN li_stack' = <<>> /\ li_result' = [panic |-> TRUE]
       ELSE /\ li_stack' =
                 SetTop([Top EXCEPT
                           !.found = found,
                           !.pc = LiBranch(found, Top.bounce, Top.ray, settings.max_bounce).pc,
                           !.value = LiBranch(found, Top.bounce, Top.ray, settings.max_bounce).value])
            /\ UNCHANGED li_result
  /\ UNCHANGED <<engine_vars, geo_vars, node_vars, screen_vars>>

\* lines 44-61, up to the recursive call: the activation keeps
\* f * cosine and calls li with bounce + 1
LiSample ==
  /\ li_stack # <<>>
  /\ Top.pc = "sample"
  /\ \E s \in BsdfSamples :
       li_stack' =
         IF ColorEq(s.f, Black) \/ REq(s.pdf, Rat(0, 1))
         THEN Return(Black)
         ELSE Append(SetTop([Top EXCEPT !.pc = "call", !.weight = ColorScale(s.f, s.cosine)]),
                     Activation(Top.bounce + 1,
                                [origin |-> Zero3, direction |-> s.wi,
                                 t_min |-> Rat(1, 1000), t_max |-> Infinity]))
  /\ UNCHANGED <<li_result, engine_vars, geo_vars, node_vars, screen_vars>>

\* an activation returns: to line 61 of its caller, which returns
\* le + f * li * cosine in turn, or to the render thread
LiReturn ==
  /\ li_stack # <<>>
  /\ Top.pc = "return"
  /\ IF Len(li_stack) = 1
     THEN li_stack' = <<>> /\ li_result' = [color |-> Top.value]
     ELSE LET caller == li_stack[Len(li_stack) - 1]
              v == ColorAdd(Black, ColorMul(caller.weight, Top.value))
          IN /\ li_stack' = [SubSeq(li_stack, 1, Len(li_stack) - 1)
                               EXCEPT ![Len(li_stack) - 1] =
                                 [caller EXCEPT !.pc = "return", !.value = v]]
             /\ UNCHANGED li_result
  /\ UNCHANGED <<engine_vars, geo_vars, node_vars, screen_vars>>

NextLi == LiCall \/ LiIntersect \/ LiSample \/ LiReturn

InitLi ==
  /\ settings \in [resolution : {<<1, 1>>}, samples_per_pixel : {1}, max_bounce : 0..MaxBounce]
  /\ film = FilmNew(settings.resolution[1], settings.resolution[2])
  /\ film_lock = LockNew
  /\ threads = [t \in Threads |-> ThreadUnborn]
  /\ scene_engine = SceneEngineNew
  /\ context = None
  /\ main_pc = "running"
  /\ GeoIdle
  /\ LiIdle
  /\ NodeIdle
  /\ ScreenIdle

\* the render thread runs li to its end: it is the only code of the thread
SpecLi == InitLi /\ [][NextLi]_vars /\ WF_vars(NextLi)

\* C9: li called with bounce = 0 terminates, and while it runs at most
\* max_bounce + 1 activations are nested: activation i (from the outside)
\* has bounce i - 1, and an activation that recurses or is about to has
\* bounce < max_bounce.
C9_LiTerminatesWithinMaxBounce ==
  /\ [](/\ Len(li_stack) <= settings.max_bounce + 1
        /\ \A i \in 1..Len(li_stack) :
             /\ li_stack[i].bounce = i - 1
             /\ li_stack[i].pc \in {"sample", "call"} =>
                  li_stack[i].bounce < settings.max_bounce)
  /\ (li_stack # <<>>) ~> (li_result # None)

\* the deepest nesting max_bounce allows is reached, and with it the cap
C9_DeepestNesting ==
  /\ settings.max_bounce >= 2
  /\ Len(li_stack) = settings.max_bounce + 1
  /\ Top.pc = "return"

\* ---------------------------------------------------------------------------
\* Rounded arithmetic: Triangle::intersect computes u, v and w in f32, through
\* square roots and divisions that are not exact.  A float is <<m, e>>, the
\* value m * 2^e with m odd (or <<0, 0>>) and |m| < 2^MantissaBits; every
\* operation rounds the exact result to nearest, ties to even, as IEEE 754
\* does.  f32 has 24 bits of mantissa; the exponent range is not modelled.
\* ---------------------------------------------------------------------------
MantissaBits == 8

Pow2(k) == 2 ^ k

RECURSIVE FCanon(_, _)
FCanon(m, e) ==
  IF m = 0 THEN <<0, 0>>
  ELSE IF m % 2 = 0 THEN FCanon(m \div 2, e + 1) ELSE <<m, e>>

RECURSIVE BitLen(_)
BitLen(a) == IF a = 0 THEN 0 ELSE 1 + BitLen(a \div 2)

\* n * 2^e rounded to MantissaBits bits: nearest, ties to even
FRound(n, e) ==
  LET a == Abs(n)
      k == BitLen(a) - MantissaBits
  IN IF k <= 0 THEN FCanon(n, e)
     ELSE LET q == a \div Pow2(k)
              r == a % Pow2(k)
              half == Pow2(k - 1)
              m == IF r > half \/ (r = half /\ q % 2 = 1) THEN q + 1 ELSE q
          IN FCanon(IF n < 0 THEN -m ELSE m, e + k)

FInt(n) == FRound(n, 0)
FNeg(a) == <<-a[1], a[2]>>
FMul(a, b) == FRound(a[1] * b[1], a[2] + b[2])

\* an operand below a quarter of the other's last place does not change it
FAdd(a, b) ==
  IF a[1] = 0 THEN b
  ELSE IF b[1] = 0 THEN a
  ELSE IF a[2] - b[2] > 2 * MantissaBits + 2 THEN a
  ELSE IF b[2] - a[2] > 2 * MantissaBits + 2 THEN b
  ELSE LET e == IF a[2] < b[2] THEN a[2] ELSE b[2]
       IN FRound(a[1] * Pow2(a[2] - e) + b[1] * Pow2(b[2] - e), e)

FSub(a, b) == FAdd(a, FNeg(b))
FLess(a, b) == FSub(a, b)[1] < 0
FLeq(a, b) == ~FLess(b, a)
FAbs(a) == <<Abs(a[1]), a[2]>>

\* the least s with n * 2^s / d of at least MantissaBits + 2 bits
RECURSIVE FScaleUp(_, _, _)
FScaleUp(n, d, s) ==
  IF (n * Pow2(s)) \div d >= Pow2(MantissaBits + 1) THEN s ELSE FScaleUp(n, d, s + 1)

\* (n1 / n2) * 2^e rounded; the remainder of the division is kept as a
\* sticky last bit so that the rounding is that of the exact quotient
FRatio(n1, n2, e) ==
  IF n1 = 0 THEN <<0, 0>>
  ELSE LET a == Abs(n1)
           b == Abs(n2)
           s == FScaleUp(a, b, 0)
           q == (a * Pow2(s)) \div b
           sticky == IF (a * Pow2(s)) % b = 0 THEN 0 ELSE 1
           neg == (n1 < 0) # (n2 < 0)
       IN FRound((IF neg THEN -1 ELSE 1) * (2 * q + sticky), e - s - 1)

FDiv(a, b) == FRatio(a[1], b[1], a[2] - b[2])

\* the least s with e - s even and m * 2^s of at least 2 * MantissaBits + 3 bits
RECURSIVE FSqrtShift(_, _, _)
FSqrtShift(m, e, s) ==
  IF (e - s) % 2 = 0 /\ m * Pow2(s) >= Pow2(2 * MantissaBits + 2) THEN s
  ELSE FSqrtShift(m, e, s + 1)

\* f32::sqrt: the correctly rounded square root
FSqrt(a) ==
  IF a[1] = 0 THEN <<0, 0>>
  ELSE LET s == FSqrtShift(a[1], a[2], 0)
           n == a[1] * Pow2(s)
           r == ISqrtIn(n, 0, Pow2(15))
           sticky == IF r * r = n THEN 0 ELSE 1
       IN FRound(2 * r + sticky, ((a[2] - s) \div 2) - 1)

FVec3(x, y, z) == <<FInt(x), FInt(y), FInt(z)>>
FVAdd(a, b) == <<FAdd(a[1], b[1]), FAdd(a[2], b[2]), FAdd(a[3], b[3])>>
FVSub(a, b) == <<FSub(a[1], b[1]), FSub(a[2], b[2]), FSub(a[3], b[3])>>
FVScale(k, a) == <<FMul(k, a[1]), FMul(k, a[2]), FMul(k, a[3])>>
FDot(a, b) == FAdd(FAdd(FMul(a[1], b[1]), FMul(a[2], b[2])), FMul(a[3], b[3]))
FCross(a, b) ==
  <<FSub(FMul(a[2], b[3]), FMul(a[3], b[2])),
    FSub(FMul(a[3], b[1]), FMul(a[1], b[3])),
    FSub(FMul(a[1], b[2]), FMul(a[2], b[1]))>>
FLength(a) == FSqrt(FDot(a, a))

FOne == FInt(1)
FTwo == FInt(2)
FZero == <<0, 0>>
\* the literal 0.0001
FEpsilon == FRatio(1, 10000, 0)

\* assert!(x >= 0.0 && x <= 1.0)
InUnit(x) == FLeq(FZero, x) /\ FLeq(x, FOne)

\* raytrace::Triangle::intersect in rounded arithmetic, for a ray with
\* t_min = 0 and t_max = INFINITY: "miss" is a return of false, "panic" a
\* failed assertion on u or v, "hit" a return of true
TriangleIntersectF32(pts, origin, direction) ==
  LET p0 == pts[1]
      p1 == pts[2]
      p2 == pts[3]
      ng == FCross(FVSub(p1, p0), FVSub(p2, p0))
      area == FDiv(FLength(ng), FTwo)
      n_dot_ray == FDot(ng, direction)
      d == FNeg(FDot(ng, p0))
      t == FDiv(FNeg(FAdd(FDot(ng, origin), d)), n_dot_ray)
      p == FVAdd(origin, FVScale(t, direction))
      c0 == FCross(FVSub(p1, p0), FVSub(p, p0))
      c1 == FCross(FVSub(p2, p1), FVSub(p, p1))
      u == FDiv(FDiv(FLength(c1), FTwo), area)
      c2 == FCross(FVSub(p0, p2), FVSub(p, p2))
      v == FDiv(FDiv(FLength(c2), FTwo), area)
      w == FSub(FSub(FOne, u), v)
      Miss == [outcome |-> "miss", u |-> FZero, v |-> FZero, w |-> FZero]
  IN IF FLess(FAbs(n_dot_ray), FEpsilon) THEN Miss
     ELSE IF FLess(t, FZero) THEN Miss
     ELSE IF FLess(FDot(ng, c0), FZero) THEN Miss
     ELSE IF FLess(FDot(ng, c1), FZero) THEN Miss
     ELSE IF FLess(FDot(ng, c2), FZero) THEN Miss
     ELSE [outcome |-> IF InUnit(u) /\ InUnit(v) THEN "hit" ELSE "panic",
           u |-> u, v |-> v, w |-> w]

\* a non-degenerate triangle, and rays from integer origins aimed at its
\* vertices and at points of its inside
F32Triangle == <<FVec3(-3, 3, 3), FVec3(0, -2, -1), FVec3(3, 1, 0)>>
F32Origins == {<<x, y, z>> : x \in {0, 1}, y \in {-3, 0}, z \in {-3, -2, 2}}
F32Targets == {<<-3, 3, 3>>, <<0, -2, -1>>, <<3, 1, 0>>, <<0, 1, 1>>}
F32Speeds == {1, 7}

InitF32 ==
  /\ EngineIdle
  /\ LiIdle
  /\ NodeIdle
  /\ ScreenIdle
  /\ core_scene = <<>>
  /\ scene = None
  /\ accel = None
  /\ shape = [kind |-> "F32Triangle", points |-> F32Triangle]
  /\ \E o \in F32Origins, g \in F32Targets, k \in F32Speeds :
       /\ VSub(g, o) # Zero3
       /\ ray = [origin |-> FVec3(o[1], o[2], o[3]),
                 direction |-> FVec3(k * (g[1] - o[1]), k * (g[2] - o[2]),
                                     k * (g[3] - o[3]))]
  /\ hit = None
  /\ build_loop = None

RaytraceTriangleF32 ==
  /\ hit = None
  /\ hit' = TriangleIntersectF32(shape.points, ray.origin, ray.direction)
  /\ UNCHANGED <<build_loop, core_scene, scene, accel, shape, ray, engine_vars, li_vars, node_vars, screen_vars>>

SpecF32 == InitF32 /\ [][RaytraceTriangleF32]_vars

\* C11 as claimed: whenever Triangle::intersect passes the three edge tests
\* on a non-degenerate triangle, u, v and w = 1 - u - v all lie in [0, 1], so
\* the assertions on u and v never fire.  Violated: for a ray through a
\* vertex the rounded ratio of the two areas comes out one place above 1.
C11_WeightsInUnitInterval ==
  (hit # None /\ hit.outcome # "miss") =>
    /\ hit.outcome = "hit"
    /\ InUnit(hit.u) /\ InUnit(hit.v) /\ InUnit(hit.w)

\* ---------------------------------------------------------------------------
\* Sphere::intersect on rays with every kind of range: t_min and t_max are
\* public fields of Ray, Ray::new gives [0, INFINITY).
\* ---------------------------------------------------------------------------
SphereShapes ==
  {Sphere(Vec3(0, 0, -3), 1), Sphere(Zero3, 2), Sphere(Vec3(4, 0, 0), 1),
   Sphere(Vec3(0, 0, -3), 2), Sphere(Vec3(0, 1, -3), 1), Sphere(Vec3(0, 0, -1), 3)}

SphereRays ==
  {[r EXCEPT !.t_min = lo, !.t_max = hi] :
     r \in GeoRays, lo \in {Rat(0, 1), Rat(1, 1)}, hi \in {Rat(3, 1), Infinity}}

InitSphere ==
  /\ EngineIdle
  /\ LiIdle
  /\ NodeIdle
  /\ ScreenIdle
  /\ core_scene = <<>>
  /\ scene = None
  /\ accel = None
  /\ shape \in SphereShapes
  /\ ray \in {r \in SphereRays : SqrtExact(shape, r)}
  /\ hit = None
  /\ build_loop = None

SpecSphere == InitSphere /\ [][RaytraceSphere]_vars

\* the quadratic a t^2 + 2 half_b t + c = 0 of the ray and the sphere
SphereQuadratic(sphere, r) ==
  [a |-> LengthSquared(r.direction),
   half_b |-> Dot(VSub(r.origin, sphere.center), r.direction),
   c |-> LengthSquared(VSub(r.origin, sphere.center)) - sphere.radius * sphere.radius]

IsRoot(q, t) == q.a * t[1] * t[1] + 2 * q.half_b * t[1] * t[2] + q.c * t[2] * t[2] = 0

\* the rational roots of the quadratic: their denominators divide a
RootNumerators == -64..64
Roots(q) == {t \in {Rat(n, q.a) : n \in RootNumerators} : IsRoot(q, t)}

InRange(r, t) == RLeq(r.t_min, t) /\ RLeq(t, r.t_max)

\* C12: Sphere::intersect returns true exactly when a root of the quadratic
\* lies in [t_min, t_max] (never when the discriminant is negative), and the
\* t it reports, into a Hit seeded with t = INFINITY, is the smallest root in
\* that range: the smaller root if in range, else the larger one.
C12_SmallestRootInRange ==
  hit # None =>
    LET q == SphereQuadratic(shape, ray)
        inside == {t \in Roots(q) : InRange(ray, t)}
    IN /\ hit.ok <=> inside # {}
       /\ hit.ok => \E t \in inside :
                      /\ REq(hit.hit.t, t)
                      /\ \A s \in inside : RLeq(t, s)
       /\ q.half_b * q.half_b - q.a * q.c < 0 => ~hit.ok

\* the smaller root is out of range and the larger one is reported
C12_LargerRootReported ==
  /\ hit # None /\ hit.ok
  /\ \E s \in Roots(SphereQuadratic(shape, ray)) :
       RLess(s, hit.hit.t) /\ ~InRange(ray, s)

\* ---------------------------------------------------------------------------
\* raytrace/mod.rs: RenderEngine.settings is a pub field, which the owner of
\* the engine can assign between any two calls.  One render is followed.
\* ---------------------------------------------------------------------------
MaxBounces == {4, 8}

\* every pixel of the resolution is a position of the Film made by new()
\* (write_pixel indexes out of bounds otherwise)
SettingsFit(s) ==
  FilmIndex(film, s.resolution[1] - 1, s.resolution[2] - 1) <= Len(film.data)

\* engine.settings = s
SetSettings(s) ==
  /\ main_pc = "running"
  /\ s # settings
  /\ SettingsFit(s)
  /\ settings' = s
  /\ UNCHANGED <<film, film_lock, threads, scene_engine, context, main_pc, geo_vars, li_vars, node_vars, screen_vars>>

NextSettings ==
  \/ \E s \in CoreScenes : Translate(s)
  \/ PrepareRender
  \/ RenderFrame /\ threads[1].pc = "unborn"
  \/ \E s \in [resolution : Resolutions, samples_per_pixel : SamplesPerPixel,
               max_bounce : MaxBounces] : SetSettings(s)
  \/ Alive /\ ThreadStep(1)

SpecSettings == Init /\ [][NextSettings]_vars

\* the thread is between its start and its end
InFlight(th) == th.pc \in {"sample", "lock", "locked"}

\* C13: prepare_render captures the engine's settings into the context,
\* render_frame hands the context's settings to the thread, and from then on
\* the thread works with them: its copy never changes, an assignment to
\* RenderEngine.settings changes neither a context nor a thread nor the Film,
\* every pixel the thread goes to lies in the captured resolution, and it
\* ends after the last pixel of pass number samples_per_pixel as captured.
C13_ThreadUsesCapturedSettings ==
  [][/\ (context = None /\ context' # None) => context'.settings = settings
     /\ settings' # settings =>
          /\ UNCHANGED <<context, threads, film, film_lock>>
     /\ \A t \in Threads :
          LET th == threads[t]
              captured == th.settings
          IN /\ (th.pc = "unborn" /\ threads'[t].pc # "unborn") =>
                  threads'[t].settings = context.settings
             /\ th.pc # "unborn" => threads'[t].settings = captured
             /\ InFlight(threads'[t]) =>
                  /\ threads'[t].x < threads'[t].settings.resolution[1]
                  /\ threads'[t].y < threads'[t].settings.resolution[2]
                  /\ threads'[t].spp <= threads'[t].settings.samples_per_pixel
             /\ (InFlight(th) /\ threads'[t].pc = "done") =>
                  /\ th.x = captured.resolution[1] - 1
                  /\ th.y = captured.resolution[2] - 1
                  /\ th.spp = captured.samples_per_pixel]_vars

\* a render of two passes over two pixels has ended although the engine's
\* settings were changed to one pass of one pixel
C13_SettingsChangedDuringRender ==
  /\ threads[1].pc = "done"
  /\ threads[1].settings # None
  /\ threads[1].settings.samples_per_pixel = 2
  /\ threads[1].settings.resolution = <<2, 1>>
  /\ threads[1].spp = 2 /\ threads[1].x = 1
  /\ settings.samples_per_pixel = 1
  /\ settings.resolution = <<1, 1>>
  /\ settings.max_bounce # threads[1].settings.max_bounce

(***************************************************************************)
(* core/node.rs: a Node is an Rc<RefCell<NodeData>>.  The heap node_data     *)
(* maps the identity of every NodeData to its fields; parent is the        *)
(* identity the Weak points to, or 0 for Weak::new().  The caller keeps a  *)
(* handle on every node, so that no NodeData is dropped.                   *)
(***************************************************************************)
MaxNodes == 3

NodeIds == 1..MaxNodes

NodeNames == [i \in 1..4 |-> <<"a", "b", "c", "d">>[i]]

\* Node::new
NodeNew(name) == [name |-> name, parent |-> 0, children |-> <<>>, components |-> <<>>]

\* children.iter().position(|x| x == self): the first index, or 0 for None
Position(children, n) ==
  IF \E i \in 1..Len(children) : children[i] = n
  THEN CHOOSE i \in 1..Len(children) :
         children[i] = n /\ \A j \in 1..(i - 1) : children[j] # n
  ELSE 0

\* Vec::remove
RemoveAt(children, i) == SubSeq(children, 1, i - 1) \o SubSeq(children, i + 1, Len(children))

\* Node::add_child
AddChildHeap(heap, p, child) == [heap EXCEPT ![p].children = Append(@, child)]

\* lines 96-99: the old parent forgets the node
Detach(heap, old, n) ==
  IF Position(heap[old].children, n) # 0
  THEN [heap EXCEPT ![old].children = RemoveAt(@, Position(@, n))]
  ELSE heap

SetParentHeap_KeepsOldEntry(heap, n, p) ==
  LET old == heap[n].parent
      linked == [heap EXCEPT ![n].parent = p]
  IN IF old # 0 /\ old = n THEN [heap |-> heap, outcome |-> "returned"]
     ELSE IF p = n THEN [heap |-> linked, outcome |-> "panicked"]
     ELSE [heap |-> AddChildHeap(linked, p, n), outcome |-> "returned"]

\* Node::set_parent.  self.0 stays mutably borrowed to the end of the call:
\* parent.add_child(..) in line 102 borrows parent.0 mutably, which panics
\* (BorrowMutError) when parent is the node itself.
SetParentHeap(heap, n, p) ==
  LET old == heap[n].parent
      detached == IF old # 0 THEN Detach(heap, old, n) ELSE heap
      linked == [detached EXCEPT ![n].parent = p]
  IN IF old # 0 /\ old = n THEN [heap |-> heap, outcome |-> "returned"]
     ELSE IF p = n THEN [heap |-> linked, outcome |-> "panicked"]
     ELSE [heap |-> AddChildHeap(linked, p, n), outcome |-> "returned"]

\* a panic ends the program
NodesAlive == IF node_call = None THEN TRUE ELSE node_call.outcome # "panicked"

\* node.set_parent(&parent)
SetParent(n, p) ==
  /\ NodesAlive
  /\ json = None
  /\ node_data' = SetParentHeap(node_data, n, p).heap
  /\ node_call' = [op |-> "set_parent", node |-> n, parent |-> p,
                   old_parent |-> node_data[n].parent,
                   outcome |-> SetParentHeap(node_data, n, p).outcome]
  /\ UNCHANGED <<json, de_nodes, engine_vars, geo_vars, li_vars, screen_vars>>

\* the nodes exist, each made by Node::new
InitParent ==
  /\ EngineIdle
  /\ GeoIdle
  /\ LiIdle
  /\ ScreenIdle
  /\ node_data = [i \in NodeIds |-> NodeNew(NodeNames[i])]
  /\ node_call = None
  /\ json = None
  /\ de_nodes = None

NextParent == \E n, p \in NodeIds : SetParent(n, p)

SpecParent == InitParent /\ [][NextParent]_vars

\* how often a node is listed
Count(children, n) == Cardinality({i \in 1..Len(children) : children[i] = n})

\* C14: after node.set_parent(p) has returned, node.parent() is p and p
\* lists node exactly once, and a different previous parent no longer lists
\* it; after any sequence of such calls every node is listed once by its
\* parent and by no other node.
C14_ParentListsChildOnce ==
  (node_call # None /\ node_call.outcome = "returned") =>
    /\ node_data[node_call.node].parent = node_call.parent
    /\ Count(node_data[node_call.parent].children, node_call.node) = 1
    /\ (node_call.old_parent # 0 /\ node_call.old_parent # node_call.parent) =>
         Count(node_data[node_call.old_parent].children, node_call.node) = 0
    /\ \A n, m \in NodeIds :
         Count(node_data[m].children, n) = IF node_data[n].parent = m THEN 1 ELSE 0

\* a node was given the parent it already had, next to a sibling
C14_ReparentedToCurrentParent ==
  /\ node_call # None
  /\ node_call.outcome = "returned"
  /\ node_call.old_parent = node_call.parent
  /\ Len(node_data[node_call.parent].children) >= 2

(***************************************************************************)
(* core/node.rs: components, and Node through serde_json.  A component is  *)
(* [type, value]: its Rust type and what it holds.  A TypedComponent is    *)
(* [ty, component].  The JSON text is kept as the tree it denotes.         *)
(***************************************************************************)
\* the impls of Component: tests::Foo and components::Mesh
ComponentTypes == {"Foo", "Mesh"}

\* C::type_name()
TypeName(type) == type

\* typetag_name(): #[typetag::serde] names an impl by the identifier of its type
TypetagName(type) == type

\* const_fnv1a_hash::fnv1a_hash_str_32, on the names in use
Fnv1aHashStr32(s) ==
  CASE s = "Foo" -> 209589879
    [] s = "Mesh" -> 132142556

\* C::type_id()
TypeId(type) == Fnv1aHashStr32(TypeName(type))

Components == {[type |-> "Foo", value |-> 123], [type |-> "Mesh", value |-> 0]}

\* how many components the nodes are given
ComponentSlots == {1, 2}

\* Node::add_component
AddComponentHeap(heap, n, c) ==
  [heap EXCEPT ![n].components = Append(@, [ty |-> TypeId(c.type), component |-> c])]

\* Node::get_component::<C>: the first component whose ty is C::type_id()
GetComponent(heap, n, type) ==
  LET comps == heap[n].components
      found == {i \in 1..Len(comps) : comps[i].ty = TypeId(type)}
  IN IF found = {} THEN None
     ELSE [some |-> comps[CHOOSE i \in found : \A j \in found : i <= j].component]

\* the nodes listed by the nodes of S
ChildrenOf(heap, S) ==
  UNION {{heap[n].children[i] : i \in 1..Len(heap[n].children)} : n \in S}

RECURSIVE Descendants(_, _, _)
Descendants(heap, S, k) ==
  IF k = 0 THEN {}
  ELSE ChildrenOf(heap, S) \cup Descendants(heap, ChildrenOf(heap, S), k - 1)

\* no node under r lists one of its own ancestors (serialize would not end)
IsTree(heap, r) ==
  \A m \in {r} \cup Descendants(heap, {r}, Len(heap)) :
    m \notin Descendants(heap, {m}, Len(heap))

\* impl Serialize for Node: the NodeData as a newtype struct; parent and ty
\* are skipped, a component is written under its typetag name
RECURSIVE SerializeNode(_, _)
SerializeNode(heap, n) ==
  [name |-> heap[n].name,
   children |-> [i \in 1..Len(heap[n].children) |-> SerializeNode(heap, heap[n].children[i])],
   components |-> [i \in 1..Len(heap[n].components) |->
                     [tag |-> TypetagName(heap[n].components[i].component.type),
                      value |-> heap[n].components[i].component.value]]]

\* ty is skipped by NodeData::deserialize and left at u32::default()
DeserializedTy_Default(tag) == 0

\* line 147: typed.ty = fnv1a_hash_str_32(typed.component.typetag_name())
DeserializedTy(tag) == Fnv1aHashStr32(tag)

\* typetag finds the impl registered under the tag
TypeOfTag(tag) == CHOOSE type \in ComponentTypes : TypetagName(type) = tag

\* impl Deserialize for Node, on the heap of the nodes made so far: the
\* children are deserialized first, each into its own Rc; then the node is
\* made, with no parent, and becomes the parent of each child
RECURSIVE DeserializeNode(_, _), DeserializeChildren(_, _, _)
DeserializeNode(j, heap) ==
  LET sub == DeserializeChildren(j.children, heap, <<>>)
      id == Len(sub.heap) + 1
      made == [name |-> j.name, parent |-> 0, children |-> sub.ids,
               components |-> [i \in 1..Len(j.components) |->
                                 [ty |-> DeserializedTy(j.components[i].tag),
                                  component |-> [type |-> TypeOfTag(j.components[i].tag),
                                                 value |-> j.components[i].value]]]]
      all == Append(sub.heap, made)
      child == {sub.ids[i] : i \in 1..Len(sub.ids)}
  IN [heap |-> [m \in 1..Len(all) |->
                  IF m \in child THEN [all[m] EXCEPT !.parent = id] ELSE all[m]],
      id |-> id]

DeserializeChildren(js, heap, ids) ==
  IF js = <<>> THEN [heap |-> heap, ids |-> ids]
  ELSE LET first == DeserializeNode(Head(js), heap)
       IN DeserializeChildren(Tail(js), first.heap, Append(ids, first.id))

\* how many components the nodes hold together
ComponentCount(heap) ==
  LET RECURSIVE Sum(_)
      Sum(k) == IF k = 0 THEN 0 ELSE Len(heap[k].components) + Sum(k - 1)
  IN Sum(Len(heap))

\* parent.add_child(child): a handle of child is pushed, its parent is not
\* set.  The callers build trees: child is listed by no node yet and p is
\* not under it.
AddChild(p, child) ==
  /\ json = None
  /\ child # p
  /\ child \notin ChildrenOf(node_data, NodeIds)
  /\ p \notin Descendants(node_data, {child}, MaxNodes)
  /\ node_data' = AddChildHeap(node_data, p, child)
  /\ UNCHANGED <<node_call, json, de_nodes, engine_vars, geo_vars, li_vars, screen_vars>>

\* node.add_component(c)
AddComponent(n, c) ==
  /\ json = None
  /\ ComponentCount(node_data) + 1 \in ComponentSlots
  /\ node_data' = AddComponentHeap(node_data, n, c)
  /\ UNCHANGED <<node_call, json, de_nodes, engine_vars, geo_vars, li_vars, screen_vars>>

\* serde_json::to_string(&node)
Serialize(r) ==
  /\ json = None
  /\ IsTree(node_data, r)
  /\ json' = [root |-> r, text |-> SerializeNode(node_data, r)]
  /\ UNCHANGED <<node_data, node_call, de_nodes, engine_vars, geo_vars, li_vars, screen_vars>>

\* serde_json::from_str::<Node>(&ser)
Deserialize ==
  /\ json # None
  /\ de_nodes = None
  /\ de_nodes' = DeserializeNode(json.text, <<>>)
  /\ UNCHANGED <<node_data, node_call, json, engine_vars, geo_vars, li_vars, screen_vars>>

NextSerde ==
  \/ \E p, child \in NodeIds : AddChild(p, child)
  \/ \E n \in NodeIds, c \in Components : AddComponent(n, c)
  \/ \E r \in NodeIds : Serialize(r)
  \/ Deserialize

SpecSerde == InitParent /\ [][NextSerde]_vars

\* the deserialized node d mirrors the node n: same name, same answer of
\* get_component for every type, every child has d as parent, and the
\* children mirror the children of n in order
RECURSIVE Mirrors(_, _, _, _)
Mirrors(de, d, heap, n) ==
  /\ de[d].name = heap[n].name
  /\ \A type \in ComponentTypes : GetComponent(de, d, type) = GetComponent(heap, n, type)
  /\ Len(de[d].children) = Len(heap[n].children)
  /\ \A i \in 1..Len(de[d].children) :
       /\ de[de[d].children[i]].parent = d
       /\ Mirrors(de, de[d].children[i], heap, heap[n].children[i])

RenderResolutions == {<<0, 2>>, <<1, 1>>, <<2, 1>>, <<1, 2>>, <<2, 2>>}

InitRender ==
  /\ GeoIdle
  /\ LiIdle
  /\ NodeIdle
  /\ ScreenIdle
  /\ settings \in [resolution : RenderResolutions, samples_per_pixel : SamplesPerPixel,
                   max_bounce : {8}]
  /\ film = FilmNew(settings.resolution[1], settings.resolution[2])
  /\ film_lock = LockNew
  /\ threads = [t \in Threads |-> ThreadUnborn]
  /\ scene_engine = SceneEngineNew
  /\ context = None
  /\ main_pc = "running"

NextRender ==
  \/ \E s \in CoreScenes : Translate(s)
  \/ PrepareRender
  \/ RenderFrame /\ threads[1].pc = "unborn"
  \/ Alive /\ Sample(1)
  \/ Alive /\ AcquireWrite(1)
  \/ Alive /\ WritePixel(1)
  \/ DisplayTryRead
  \/ DisplayUpload

SpecRender ==
  /\ InitRender
  /\ [][NextRender]_vars
  /\ WF_vars(Alive /\ Sample(1))
  /\ SF_vars(Alive /\ AcquireWrite(1))
  /\ WF_vars(Alive /\ WritePixel(1))
  /\ WF_vars(DisplayUpload)

\* the number of a write: passes before it, rows before it, pixels before it
WriteNumber(th) ==
  (th.spp - 1) * th.settings.resolution[1] * th.settings.resolution[2]
    + th.y * th.settings.resolution[1] + th.x

C17_FirstPassReplacesLaterPassesAverage ==
  [][\A t \in Threads :
       LET th == threads[t]
           i == FilmIndex(film, th.x, th.y)
           old == Color(Rat(film.data[i][1], 255), Rat(film.data[i][2], 255),
                        Rat(film.data[i][3], 255))
           mean == Color(RAdd(old.r, RDivInt(RSub(th.color.r, old.r), th.spp)),
                         RAdd(old.g, RDivInt(RSub(th.color.g, old.g), th.spp)),
                         RAdd(old.b, RDivInt(RSub(th.color.b, old.b), th.spp)))
       IN threads'[t].writes # th.writes =>
            /\ film_lock.writer = t
            /\ film'.data[i] = ColorIntoU8x4(IF th.spp = 1 THEN th.color ELSE mean)]_vars

\* the first write of a white render has replaced the black that a
\* finished render left in the pixel
C17_FirstPassOverEarlierRender ==
  /\ threads[1].pc = "done"
  /\ threads[1].writes >= 1
  /\ threads[1].accelerator.li = {Black}
  /\ threads[2].writes = 1
  /\ threads[2].accelerator.li = {White}
  /\ film.data[1] = <<255, 255, 255, 255>>

(***************************************************************************)
(* raytrace/accelerator.rs: which candidate Accelerator::intersect keeps.  *)
(* Scenes with triangles one behind the other, coincident triangles in one *)
(* mesh and in two meshes, and triangles wound the other way round.        *)
(***************************************************************************)
TriC == <<Vec3(-1, -1, -1), Vec3(1, -1, -1), Vec3(0, 1, -1)>>

RecordScenes ==
  {<<MeshNode(AffineIdentity, TriC \o TriA \o TriA, Some(<<0, 2, 1, 3, 4, 5, 6, 7, 8>>))>>,
   <<MeshNode(AffineIdentity, TriA, None),
     MeshNode(AffineFromTranslation(Vec3(0, 0, -1)), TriC, None)>>,
   <<MeshNode(AffineIdentity, TriA, Some(<<0, 2, 1>>))>>,
   <<MeshNode(AffineIdentity, TriB \o TriA, None)>>,
   <<MeshNode(AffineIdentity, TriA, None),
     GeomSphereNode(AffineFromTranslation(Vec3(0, 0, -5)), 1)>>}

InitRecord ==
  /\ EngineIdle
  /\ LiIdle
  /\ NodeIdle
  /\ ScreenIdle
  /\ core_scene \in RecordScenes
  /\ ray \in {r \in GeoRays : SqrtExactOnScene(core_scene, r)}
  /\ scene = None
  /\ accel = None
  /\ shape = None
  /\ hit = None
  /\ build_loop = None

SpecRecord == InitRecord /\ [][NextIsect]_vars

\* the candidates of one call in the order of its loops: every L2 shape
\* the two traversals yield, with its primitive and with what the shape
\* kernel reports for the object-space ray on a fresh Hit
RECURSIVE Candidates(_, _)
Candidates(l1s, r) ==
  IF l1s = <<>> THEN <<>>
  ELSE LET l1 == Head(l1s)
           object_ray == TransformRay(l1.primitive.mesh.world_to_object, r)
           l2s == TraverseL2(l1.l2nodes, object_ray)
       IN [i \in 1..Len(l2s) |->
             [primitive |-> l1.primitive, shape |-> l2s[i],
              tmp |-> ShapeIntersect(l2s[i], object_ray, HitDefault)]]
            \o Candidates(Tail(l1s), r)

\* the candidates whose kernel reports a hit with front = true
FrontHits(cs) == {i \in 1..Len(cs) : cs[i].tmp.ok /\ cs[i].tmp.hit.front}

\* the first of the front hits of least t
FirstClosest(cs) ==
  CHOOSE i \in FrontHits(cs) :
    \A j \in FrontHits(cs) :
      \/ RLess(cs[i].tmp.hit.t, cs[j].tmp.hit.t)
      \/ (REq(cs[i].tmp.hit.t, cs[j].tmp.hit.t) /\ i <= j)

\* C18: a call of Accelerator.intersect that returns gives true exactly when
\* some candidate's kernel reports a hit with front = true; the Hit is then
\* that of the first candidate of least t among those, with primitive and
\* shape referring to it, so that back-facing hits are never recorded and of
\* equal t the first found is kept; otherwise the Hit is left untouched.
C18_RecordsFirstClosestFrontHit ==
  (hit # None /\ ~hit.panic) =>
    LET cs == Candidates(TraverseL1(accel.l1nodes, ray), ray)
    IN /\ hit.any_hit = (FrontHits(cs) # {})
       /\ FrontHits(cs) = {} => hit.hit = HitDefault
       /\ FrontHits(cs) # {} =>
            /\ hit.hit.front
            /\ hit.hit = [cs[FirstClosest(cs)].tmp.hit
                            EXCEPT !.primitive = cs[FirstClosest(cs)].primitive,
                                   !.shape = cs[FirstClosest(cs)].shape]

\* a call returned with a hit although a back-facing triangle was closer,
\* and two front-facing candidates had the recorded t
C18_TieBehindBackFacingHit ==
  /\ hit # None
  /\ ~hit.panic
  /\ hit.any_hit
  /\ LET cs == Candidates(TraverseL1(accel.l1nodes, ray), ray)
     IN /\ \E k \in 1..Len(cs) :
             /\ cs[k].tmp.ok
             /\ ~cs[k].tmp.hit.front
             /\ RLess(cs[k].tmp.hit.t, hit.hit.t)
        /\ \E i, j \in FrontHits(cs) :
             /\ i < j
             /\ REq(cs[i].tmp.hit.t, hit.hit.t)
             /\ REq(cs[j].tmp.hit.t, hit.hit.t)
             /\ cs[i].shape # cs[j].shape

(***************************************************************************)
(* raytrace/scene.rs: the cameras SceneEngine::translate collects.  A core *)
(* node is [camera, children]: camera is the identity of the Camera        *)
(* component translate_node finds on it, or 0 when it finds none.  The     *)
(* translated tree has the shape of the core tree.                         *)
(***************************************************************************)
MaxCameraList == 7

CoreNode(camera, children) == [camera |-> camera, children |-> children]

\* SceneEngine::new: an Empty root, no cameras
SceneEngineEmpty ==
  [cameras |-> <<>>, active_cam |-> 0, root |-> CoreNode(0, <<>>)]

\* scenes with two cameras side by side, with a camera at the root, with
\* no camera, and with a camera under a camera
CameraScenes ==
  {CoreNode(0, <<CoreNode(1, <<>>), CoreNode(2, <<>>)>>),
   CoreNode(3, <<>>),
   CoreNode(0, <<CoreNode(0, <<>>)>>),
   CoreNode(0, <<CoreNode(4, <<CoreNode(5, <<>>)>>), CoreNode(6, <<>>)>>)}

\* the camera nodes of a tree in the order translate_node visits them: the
\* node, then its children from first to last
RECURSIVE NodeCameras(_), ChildrenCameras(_)
NodeCameras(node) ==
  (IF node.camera # 0 THEN <<node.camera>> ELSE <<>>) \o ChildrenCameras(node.children)

ChildrenCameras(children) ==
  IF children = <<>> THEN <<>>
  ELSE NodeCameras(Head(children)) \o ChildrenCameras(Tail(children))

\* SceneEngine::translate: translate_node pushes every camera it makes onto
\* self.cameras (line 90) and sets active_cam = 0 (line 91); nothing clears
\* the list; the root is replaced
SceneEngineTranslate(se, core) ==
  [cameras |-> se.cameras \o NodeCameras(core),
   active_cam |-> IF NodeCameras(core) # <<>> THEN 0 ELSE se.active_cam,
   root |-> core]

\* scene_engine.translate(&scene)
TranslateScene(s) ==
  /\ Len(scene_engine.cameras) + Len(NodeCameras(s)) <= MaxCameraList
  /\ scene_engine' = SceneEngineTranslate(scene_engine, s)
  /\ UNCHANGED <<film, film_lock, threads, settings, context, main_pc, geo_vars, li_vars, node_vars, screen_vars>>

InitCameras ==
  /\ GeoIdle
  /\ LiIdle
  /\ NodeIdle
  /\ ScreenIdle
  /\ settings = [resolution |-> <<1, 1>>, samples_per_pixel |-> 1, max_bounce |-> 8]
  /\ film = FilmNew(settings.resolution[1], settings.resolution[2])
  /\ film_lock = LockNew
  /\ threads = [t \in Threads |-> ThreadUnborn]
  /\ scene_engine = SceneEngineEmpty
  /\ context = None
  /\ main_pc = "running"

NextCameras == \E s \in CameraScenes : TranslateScene(s)

SpecCameras == InitCameras /\ [][NextCameras]_vars

\* C19 as claimed: after each translate call the camera list holds exactly
\* the camera nodes of the scene just translated, in traversal order, and
\* the active camera is the first of them (none if the scene has none);
\* translating the same scene again leaves the engine as it is.
C19_CamerasOfSceneJustTranslated ==
  /\ [](/\ scene_engine.cameras = NodeCameras(scene_engine.root)
        /\ scene_engine.cameras # <<>> => scene_engine.active_cam = 0)
  /\ [][scene_engine'.root = scene_engine.root => scene_engine' = scene_engine]_vars

(***************************************************************************)
(* raytrace/integrator.rs: Integrator::li called with any bounce value,    *)
(* as its signature allows.                                                *)
(***************************************************************************)
\* integrator.li(accel, sampler, ray, bounce)
LiCallAt(bounce) ==
  /\ li_stack = <<>>
  /\ li_result = None
  /\ \E d \in LiDirections : li_stack' = <<Activation(bounce, RayNew(Zero3, d))>>
  /\ UNCHANGED <<li_result, engine_vars, geo_vars, node_vars, screen_vars>>

NextLiAt ==
  \/ \E bounce \in 0..(MaxBounce + 1) : LiCallAt(bounce)
  \/ LiIntersect
  \/ LiSample
  \/ LiReturn

SpecLiAt == InitLi /\ [][NextLiAt]_vars

\* C20: an activation of li whose ray hits nothing returns the sky colour
\* of its ray whatever its bounce is, and an activation whose ray hits
\* something at bounce >= max_bounce returns black; neither samples the
\* BSDF nor calls li again.
C20_MissTestedBeforeDepthCap ==
  \A i \in 1..Len(li_stack) :
    LET a == li_stack[i]
    IN /\ a.found = "miss" =>
            /\ a.pc = "return"
            /\ a.value = SkyColor(a.ray)
            /\ i = Len(li_stack)
       /\ (a.found = "hit" /\ a.bounce >= settings.max_bounce) =>
            /\ a.pc = "return"
            /\ a.value = Black
            /\ i = Len(li_stack)

\* a ray missed at a bounce beyond the cap, and the sky it returns is not black
C20_MissBeyondDepthCap ==
  /\ li_stack # <<>>
  /\ Top.found = "miss"
  /\ Top.bounce > settings.max_bounce
  /\ settings.max_bounce >= 1
  /\ Top.pc = "return"
  /\ Top.value # Black

(***************************************************************************)
(* raytrace/accelerator.rs: the loop of Accelerator::build over the tree   *)
(* of scene.rs Nodes.  A Node is [id, prim, children]; id stands for its   *)
(* address.  build_loop is [root, stack, l1nodes, visited, pc]: the        *)
(* VecDeque, the L1 nodes pushed so far, the nodes popped so far, and      *)
(* "loop" (line 61 is next) or "done" (Self is returned).                  *)
(***************************************************************************)
SceneNode(id, prim, children) == [id |-> id, prim |-> prim, children |-> children]

\* the primitives a node can carry: Empty, a camera, a sphere, a mesh
\* with no triangle (two vertices) and a mesh of two triangles
BuildPrims ==
  {TranslateNode(EmptyNode),
   TranslateNode(CameraNode(AffineIdentity)),
   TranslateNode(GeomSphereNode(AffineFromTranslation(Vec3(0, 0, -2)), 1)),
   TranslateNode(MeshNode(AffineIdentity, <<Vec3(0, 0, 0), Vec3(1, 0, 0)>>, None)),
   TranslateNode(MeshNode(AffineIdentity, TriB \o TriA, None))}

\* a root with two children, the first of which has a child of its own
BuildTrees ==
  {SceneNode(1, p1, <<SceneNode(2, p2, <<SceneNode(3, p3, <<>>)>>), SceneNode(4, p4, <<>>)>>) :
     p1 \in BuildPrims, p2 \in BuildPrims, p3 \in BuildPrims, p4 \in BuildPrims}

\* lines 59-61: the deque holds the root
BuildBegin(root) ==
  [root |-> root, stack |-> <<root>>, l1nodes |-> <<>>, visited |-> <<>>, pc |-> "loop"]

\* lines 62-106 with pop_back for pop_front
BuildIteration_PopBack(st) ==
  LET current_node == st.stack[Len(st.stack)]
      l2nodes == L2Nodes(current_node.prim)
  IN [st EXCEPT
        !.stack = SubSeq(st.stack, 1, Len(st.stack) - 1) \o current_node.children,
        !.l1nodes = IF l2nodes # <<>> THEN Append(@, L1Node(current_node.prim)) ELSE @,
        !.visited = Append(@, current_node.id)]

\* lines 62-106, one iteration: pop_front, the L2 nodes of the primitive,
\* an L1 node if there are any, push_back of every child
BuildIteration(st) ==
  LET current_node == Head(st.stack)
      l2nodes == L2Nodes(current_node.prim)
  IN [st EXCEPT
        !.stack = Tail(st.stack) \o current_node.children,
        !.l1nodes = IF l2nodes # <<>> THEN Append(@, L1Node(current_node.prim)) ELSE @,
        !.visited = Append(@, current_node.id)]

\* one turn of `while !stack.is_empty()`
BuildVisit ==
  /\ build_loop # None
  /\ build_loop.pc = "loop"
  /\ build_loop.stack # <<>>
  /\ build_loop' = BuildIteration(build_loop)
  /\ UNCHANGED <<core_scene, scene, accel, shape, ray, hit, engine_vars, li_vars, node_vars, screen_vars>>

\* the deque is empty: lines 109-112
BuildReturn ==
  /\ build_loop # None
  /\ build_loop.pc = "loop"
  /\ build_loop.stack = <<>>
  /\ build_loop' = [build_loop EXCEPT !.pc = "done"]
  /\ UNCHANGED <<core_scene, scene, accel, shape, ray, hit, engine_vars, li_vars, node_vars, screen_vars>>

InitBuild ==
  /\ EngineIdle
  /\ LiIdle
  /\ NodeIdle
  /\ ScreenIdle
  /\ core_scene = <<>>
  /\ scene = None
  /\ accel = None
  /\ shape = None
  /\ ray = None
  /\ hit = None
  /\ build_loop \in {BuildBegin(root) : root \in BuildTrees}

NextBuild == BuildVisit \/ BuildReturn

\* build is straight-line code: it runs until it returns
SpecBuild == InitBuild /\ [][NextBuild]_vars /\ WF_vars(NextBuild)

\* the nodes of a tree level by level, each level from left to right
RECURSIVE LevelsFrom(_)
LevelsFrom(level) ==
  IF level = <<>> THEN <<>>
  ELSE LET RECURSIVE Below(_)
           Below(ns) == IF ns = <<>> THEN <<>> ELSE Head(ns).children \o Below(Tail(ns))
       IN level \o LevelsFrom(Below(level))

BreadthFirst(root) == LevelsFrom(<<root>>)

\* the number of L2 elements build owes a primitive
OwedShapes(prim) ==
  IF prim.kind = "Sphere" THEN 1
  ELSE IF prim.kind = "TriangleMesh" THEN prim.mesh.tri_count
  ELSE 0

\* C21: Accelerator.build ends; when it has ended it has visited every node
\* of the tree exactly once, in breadth-first order, and its L1 nodes are,
\* in that order, one for each Sphere node (one L2 element) and one for each
\* TriangleMesh node with tri_count >= 1 (tri_count L2 elements), none for
\* an Empty or Camera node or a mesh without triangles, whose children are
\* visited all the same.
C21_BuildVisitsBreadthFirst ==
  /\ [](build_loop.pc = "done" =>
          LET order == BreadthFirst(build_loop.root)
              owed == SelectSeq(order, LAMBDA n : OwedShapes(n.prim) >= 1)
          IN /\ build_loop.visited = [i \in 1..Len(order) |-> order[i].id]
             /\ Cardinality({build_loop.visited[i] : i \in 1..Len(build_loop.visited)})
                  = Len(build_loop.visited)
             /\ Len(build_loop.l1nodes) = Len(owed)
             /\ \A i \in 1..Len(owed) :
                  /\ build_loop.l1nodes[i].primitive = owed[i].prim
                  /\ Len(build_loop.l1nodes[i].l2nodes) = OwedShapes(owed[i].prim))
  /\ <>(build_loop.pc = "done")

\* build has ended on a tree whose root and first child are skipped (Empty
\* and a mesh without triangles) and whose grandchild and second child each
\* gave an L1 node, the second child's first
C21_SkippedNodesWithChildren ==
  /\ build_loop.pc = "done"
  /\ build_loop.root.prim.kind = "Empty"
  /\ build_loop.root.children[1].prim.kind = "TriangleMesh"
  /\ build_loop.root.children[1].prim.mesh.tri_count = 0
  /\ build_loop.visited = <<1, 2, 4, 3>>
  /\ Len(build_loop.l1nodes) = 2
  /\ build_loop.l1nodes[1].primitive.kind = "Sphere"
  /\ build_loop.l1nodes[2].primitive.kind = "TriangleMesh"
  /\ Len(build_loop.l1nodes[2].l2nodes) = 2

(***************************************************************************)
(* raytrace/mod.rs: RenderEngine.settings assigned to any value between    *)
(* the calls.  The Film keeps the size RenderEngine::new gave it.          *)
(***************************************************************************)
\* engine.settings = s
AssignSettings(s) ==
  /\ main_pc = "running"
  /\ s # settings
  /\ settings' = s
  /\ UNCHANGED <<film, film_lock, threads, scene_engine, context, main_pc, geo_vars, li_vars, node_vars, screen_vars>>

NextResize ==
  \/ \E s \in CoreScenes : Translate(s)
  \/ PrepareRender
  \/ RenderFrame
  \/ \E s \in [resolution : Resolutions, samples_per_pixel : SamplesPerPixel,
               max_bounce : {8}] : AssignSettings(s)
  \/ \E t \in Threads : Alive /\ Sample(t)
  \/ \E t \in Threads : Alive /\ AcquireWrite(t)
  \/ \E t \in Threads : Alive /\ WritePixel(t)
  \/ DisplayTryRead
  \/ DisplayUpload

\* the render threads run whenever they can, a waiting writer gets the
\* lock once it is free often enough, and the display drops its read guard
SpecResize ==
  /\ Init
  /\ [][NextResize]_vars
  /\ \A t \in Threads : WF_vars(Alive /\ Sample(t))
  /\ \A t \in Threads : SF_vars(Alive /\ AcquireWrite(t))
  /\ \A t \in Threads : WF_vars(Alive /\ WritePixel(t))
  /\ WF_vars(DisplayUpload)

\* C22 as claimed: no render thread panics, under the Film lock or by
\* unwrapping it, the lock is never poisoned, and a render thread that has
\* come to write() gets the write guard.
C22_FilmLockNeverPoisoned ==
  /\ [](/\ ~film_lock.poisoned
        /\ \A t \in Threads : threads[t].pc # "panicked")
  /\ \A t \in Threads : (threads[t].pc = "lock") ~> (threads[t].pc = "locked")

\* C26 as claimed: whenever a render thread holds the write guard and is
\* about to call film.pixel or film.write_pixel, its x is below the Film's
\* width and its y below the Film's height.
C26_PixelInsideFilm ==
  \A t \in Threads :
    threads[t].pc = "locked" =>
      /\ threads[t].x < film.w
      /\ threads[t].y < film.h

(***************************************************************************)
(* raytrace/mod.rs lines 91-96: the NDC sample of one pixel.  An f32 is    *)
(* [kind, value]: kind is "finite", with the exact value, or "inf",        *)
(* "-inf" or "nan", which a division by 0.0 gives.                         *)
(***************************************************************************)
Finite(q) == [kind |-> "finite", value |-> q]

\* a / b in f32, b an integer that is not negative
F32DivInt(a, b) ==
  IF b # 0 THEN Finite(Rat(a[1], a[2] * b))
  ELSE IF a[1] > 0 THEN [kind |-> "inf", value |-> Rat(0, 1)]
  ELSE IF a[1] < 0 THEN [kind |-> "-inf", value |-> Rat(0, 1)]
  ELSE [kind |-> "nan", value |-> Rat(0, 1)]

\* v * 2.0 - 1.0
TimesTwoMinusOne(v) ==
  IF v.kind = "finite" THEN Finite(RSub(RMulInt(v.value, 2), Rat(1, 1))) ELSE v

\* sampler.get_2d() - 0.5: each coordinate of get_2d is in [0, 1)
Jitters == {Rat(-1, 2), Rat(-1, 4), Rat(0, 1), Rat(1, 4), Rat(49, 100)}

\* width and height of the captured resolution
NdcExtents == 1..4

\* lines 92-96: one coordinate of ndc, for pixel coordinate x of extent
NdcCoordinate(x, jitter, extent) ==
  TimesTwoMinusOne(F32DivInt(RAdd(Rat(x, 1), jitter), extent - 1))

\* lines 91-96
RenderLoopNdc ==
  /\ ndc_call # None
  /\ ndc_call.ndc = None
  /\ ndc_call' =
       [ndc_call EXCEPT
          !.ndc = Some(<<NdcCoordinate(ndc_call.x, ndc_call.jitter[1], ndc_call.width),
                         NdcCoordinate(ndc_call.y, ndc_call.jitter[2], ndc_call.height)>>)]
  /\ UNCHANGED <<texture, film_call, arcs, engine_vars, geo_vars, li_vars, node_vars>>

\* a pixel of the loops of lines 89-90 and the jitter drawn for it
InitNdc ==
  /\ EngineIdle
  /\ GeoIdle
  /\ LiIdle
  /\ NodeIdle
  /\ texture = None
  /\ film_call = None
  /\ arcs = None
  /\ \E w \in NdcExtents, h \in NdcExtents :
       \E px \in 0..(w - 1), py \in 0..(h - 1), jx \in Jitters, jy \in Jitters :
         ndc_call = [x |-> px, y |-> py, width |-> w, height |-> h,
                     jitter |-> <<jx, jy>>, ndc |-> None]

SpecNdc == InitNdc /\ [][RenderLoopNdc]_vars

\* -1 <= v <= 1
InNdcRange(v) ==
  /\ v.kind = "finite"
  /\ RLeq(Rat(-1, 1), v.value)
  /\ RLeq(v.value, Rat(1, 1))

\* C23 as claimed: both coordinates of the NDC sample computed for a pixel
\* lie in [-1, 1], for every pixel of every resolution and every jitter.
C23_NdcInsideSquare ==
  (ndc_call # None /\ ndc_call.ndc # None) =>
    /\ InNdcRange(ndc_call.ndc.some[1])
    /\ InNdcRange(ndc_call.ndc.some[2])

(***************************************************************************)
(* raytrace/shape.rs: Triangle::intersect with the order of its steps, on  *)
(* degenerate input.  The direction of the ray is direction / den; uvs are *)
(* the texture coordinates of the three vertices.  The result says what    *)
(* the call did: returned is "false", "true" or "panic" (an assert         *)
(* failed), by_area counts the divisions by area made, zero_div says that  *)
(* some division was by 0.0, basis says where dpdu and dpdv came from.     *)
(***************************************************************************)
KernelOutcome(returned, by_area, zero_div, basis) ==
  [returned |-> returned, by_area |-> by_area, zero_div |-> zero_div, basis |-> basis]

NearParallel_Never(n, den) == FALSE

\* line 164: n_dot_ray.abs() < 0.0001, for n_dot_ray = n / den
NearParallel(n, den) == RLess(Rat(Abs(n), den), Rat(1, 10000))

\* line 228: determinant.abs() < 1e-8
DegenerateUv(uvs) ==
  LET duv1 == <<uvs[2][1] - uvs[1][1], uvs[2][2] - uvs[1][2]>>
      duv2 == <<uvs[3][1] - uvs[1][1], uvs[3][2] - uvs[1][2]>>
      determinant == duv1[1] * duv2[2] - duv1[2] * duv2[1]
  IN RLess(Rat(Abs(determinant), 1), Rat(1, 100000000))

\* 0 <= q <= 1
InUnitInterval(q) == RLeq(Rat(0, 1), q) /\ RLeq(q, Rat(1, 1))

\* lines 148-236.  Past the plane test p lies in the plane, so that every
\* cross product c is a multiple of ng and (c.length() / 2) / area is
\* (c . ng) / (ng . ng).  A division by 0.0 gives an infinity or a NaN; a
\* NaN fails every comparison, the asserts of lines 211-212 included.
TriangleIntersectSteps(pts, uvs, origin, direction, den) ==
  LET p0 == pts[1]
      p1 == pts[2]
      p2 == pts[3]
      ng == Cross(VSub(p1, p0), VSub(p2, p0))
      n == Dot(ng, direction)
      num == -(Dot(ng, origin) - Dot(ng, p0))
      t == RNorm(Rat(num * den, n))
      s == RNorm(Rat(num, n))
      p == QVec(VAdd(VScale(s[2], origin), VScale(s[1], direction)), s[2])
      Side(a, b) == Dot(ng, Cross(VSub(b, a), QSubPoint(p, a).v))
      area2 == Dot(ng, ng)
      u == Rat(Side(p1, p2), area2 * p.den)
      v == Rat(Side(p2, p0), area2 * p.den)
  IN IF NearParallel(n, den) THEN KernelOutcome("false", 0, FALSE, "none")
     ELSE IF n = 0
     THEN IF num < 0
          THEN KernelOutcome("false", 0, TRUE, "none")
          ELSE KernelOutcome("panic", 2, TRUE, "none")
     ELSE IF RLess(t, Rat(0, 1)) THEN KernelOutcome("false", 0, FALSE, "none")
     ELSE IF Side(p0, p1) < 0 THEN KernelOutcome("false", 0, FALSE, "none")
     ELSE IF Side(p1, p2) < 0 THEN KernelOutcome("false", 1, FALSE, "none")
     ELSE IF Side(p2, p0) < 0 THEN KernelOutcome("false", 2, FALSE, "none")
     ELSE IF ~InUnitInterval(u) \/ ~InUnitInterval(v)
     THEN KernelOutcome("panic", 2, FALSE, "none")
     ELSE IF DegenerateUv(uvs) THEN KernelOutcome("true", 2, FALSE, "coordinate_system")
     ELSE KernelOutcome("true", 2, FALSE, "uv")

\* a triangle, three points on a line, one point three times, and a
\* needle of small area
DegenerateTriangles ==
  {TriA,
   <<Vec3(-1, -1, -2), Vec3(0, -1, -2), Vec3(1, -1, -2)>>,
   <<Vec3(0, 0, -2), Vec3(0, 0, -2), Vec3(0, 0, -2)>>,
   <<Vec3(-1, 0, -2), Vec3(1, 0, -2), Vec3(0, 1, -2)>>}

\* the default uvs of a mesh without texcoords, one uv for all vertices,
\* and uvs on a line
TriangleUvs ==
  {<<<<0, 0>>, <<1, 0>>, <<1, 1>>>>,
   <<<<0, 0>>, <<0, 0>>, <<0, 0>>>>,
   <<<<0, 0>>, <<1, 1>>, <<2, 2>>>>}

\* directions: onto the plane z = -2, away from it, in it, and close to it
\* by 1 / 50000 and by 1 / 8
GrazingDirections ==
  {[v |-> Vec3(0, 0, -1), den |-> 1], [v |-> Vec3(0, 0, 1), den |-> 1],
   [v |-> Vec3(1, 0, 0), den |-> 1], [v |-> Vec3(50000, 0, -1), den |-> 50000],
   [v |-> Vec3(8, 0, -1), den |-> 8], [v |-> Vec3(0, 1, -2), den |-> 1]}

GrazingOrigins == {Zero3, Vec3(0, -1, 0), Vec3(0, 0, -2), Vec3(-16, 0, 0)}

InitDegenerate ==
  /\ EngineIdle
  /\ LiIdle
  /\ NodeIdle
  /\ ScreenIdle
  /\ core_scene = <<>>
  /\ scene = None
  /\ accel = None
  /\ \E pts \in DegenerateTriangles, uvs \in TriangleUvs :
       shape = [kind |-> "Triangle", points |-> pts, uvs |-> uvs]
  /\ \E o \in GrazingOrigins, d \in GrazingDirections :
       ray = [origin |-> o, direction |-> d.v, den |-> d.den]
  /\ hit = None
  /\ build_loop = None

\* triangle.intersect(&ray, &mut hit)
RaytraceTriangleSteps ==
  /\ hit = None
  /\ hit' = TriangleIntersectSteps(shape.points, shape.uvs, ray.origin, ray.direction, ray.den)
  /\ UNCHANGED <<build_loop, core_scene, scene, accel, shape, ray, engine_vars, li_vars, node_vars, screen_vars>>

SpecDegenerate == InitDegenerate /\ [][RaytraceTriangleSteps]_vars

\* the normal of the triangle's plane, not normalized
PlaneNormal(pts) == Cross(VSub(pts[2], pts[1]), VSub(pts[3], pts[1]))

\* C24: Triangle.intersect does not panic on degenerate input and divides
\* by no zero: for a ray with |ng . d| < 1e-4, as is every ray against a
\* triangle of zero area, it returns false without having divided by the
\* area, and when it reports a hit for uvs of determinant zero, dpdu and
\* dpdv come from coordinate_system.
C24_DegenerateInputRecovered ==
  hit # None =>
    /\ hit.returned # "panic"
    /\ ~hit.zero_div
    /\ 10000 * Abs(Dot(PlaneNormal(shape.points), ray.direction)) < ray.den =>
         (hit.returned = "false" /\ hit.by_area = 0)
    /\ PlaneNormal(shape.points) = Zero3 => (hit.returned = "false" /\ hit.by_area = 0)
    /\ (hit.returned = "true" /\ DegenerateUv(shape.uvs)) =>
         hit.basis = "coordinate_system"
    /\ (hit.returned = "true" /\ ~DegenerateUv(shape.uvs)) => hit.basis = "uv"

\* a ray toward three points on a line has been refused
C24_ZeroAreaTriangleRefused ==
  /\ hit # None
  /\ PlaneNormal(shape.points) = Zero3
  /\ shape.points[1] # shape.points[2]
  /\ ray.direction = Vec3(0, 0, -1)
  /\ hit.returned = "false"

(***************************************************************************)
(* raytrace/film.rs on its own: a Film made by new, then any calls of      *)
(* write_pixel and pixel with x < width and y < height.                    *)
(***************************************************************************)
FilmDimensions == {<<0, 2>>, <<1, 1>>, <<3, 2>>}

\* the [u8; 4] values written
FilmBytes == {<<255, 0, 0, 255>>, <<1, 2, 3, 4>>}

InitFilm ==
  /\ GeoIdle
  /\ LiIdle
  /\ NodeIdle
  /\ ScreenIdle
  /\ \E d \in FilmDimensions :
       /\ settings = [resolution |-> d, samples_per_pixel |-> 1, max_bounce |-> 8]
       /\ film = FilmNew(d[1], d[2])
  /\ film_lock = LockNew
  /\ threads = [t \in Threads |-> ThreadUnborn]
  /\ scene_engine = SceneEngineNew
  /\ context = None
  /\ main_pc = "running"

\* film.write_pixel(x, y, color)
FilmCallWritePixel(x, y, color) ==
  /\ x < film.w
  /\ y < film.h
  /\ film' = FilmWritePixel(film, x, y, color)
  /\ film_call' = [op |-> "write_pixel", x |-> x, y |-> y, color |-> color,
                   before |-> FilmData(film), returned |-> None]
  /\ UNCHANGED <<ndc_call, texture, arcs, film_lock, threads, settings, scene_engine, context,
                 main_pc, geo_vars, li_vars, node_vars>>

\* film.pixel(x, y) for the pixel just written
FilmCallPixel ==
  /\ film_call # None
  /\ film_call.op = "write_pixel"
  /\ film_call' = [film_call EXCEPT !.op = "pixel",
                                    !.returned = FilmPixel(film, film_call.x, film_call.y)]
  /\ UNCHANGED <<ndc_call, texture, arcs, engine_vars, geo_vars, li_vars, node_vars>>

NextFilm ==
  \/ \E x \in 0..2, y \in 0..1, color \in FilmBytes : FilmCallWritePixel(x, y, color)
  \/ FilmCallPixel

SpecFilm == InitFilm /\ [][NextFilm]_vars

\* the positions in data() of the bytes of pixel (x, y) of a row-major
\* film of the given width
PixelBytes(width, x, y) == {4 * (y * width + x) + j : j \in 1..4}

\* C25: a new Film is width * height zero pixels; data() is always
\* width * height * 4 bytes; write_pixel(x, y, c) leaves every byte but
\* the four at 4 * (y * width + x) as it was and makes those four c, in
\* the order red, green, blue, alpha; pixel(x, y) then returns c's red,
\* green and blue over 255.
C25_FilmRowMajorRgba ==
  /\ film.w = settings.resolution[1]
  /\ film.h = settings.resolution[2]
  /\ Len(film.data) = film.w * film.h
  /\ Len(FilmData(film)) = film.w * film.h * 4
  /\ film_call = None => \A i \in 1..Len(FilmData(film)) : FilmData(film)[i] = 0
  /\ film_call # None =>
       /\ Len(film_call.before) = Len(FilmData(film))
       /\ \A i \in 1..Len(FilmData(film)) :
            IF i \in PixelBytes(film.w, film_call.x, film_call.y)
            THEN FilmData(film)[i] = film_call.color[i - 4 * (film_call.y * film.w + film_call.x)]
            ELSE FilmData(film)[i] = film_call.before[i]
       /\ film_call.op = "pixel" =>
            film_call.returned = Color(Rat(film_call.color[1], 255), Rat(film_call.color[2], 255),
                                       Rat(film_call.color[3], 255))

\* pixel (1, 1) of the film of 3 x 2 was written over another value and
\* read back
C25_SecondRowWrittenAndRead ==
  /\ film_call # None
  /\ film_call.op = "pixel"
  /\ film.w = 3
  /\ film_call.x = 1
  /\ film_call.y = 1
  /\ film_call.color = <<1, 2, 3, 4>>
  /\ film_call.before[17] = 255
  /\ FilmData(film)[17] = 1
  /\ FilmData(film)[9] = 255

(***************************************************************************)
(* The space of the hit Accelerator::intersect returns.                    *)
(***************************************************************************)
\* two points given with denominators are the same point
SamePoint(a, b) == \A i \in 1..3 : a.v[i] * b.den = b.v[i] * a.den

\* C27: the hit Accelerator.intersect returns is a hit of the ray it was
\* given: hit.p = ray.origin + hit.t * ray.direction, whatever the
\* world_to_object transform of the mesh that was hit.
C27_HitInSpaceOfInputRay ==
  (hit # None /\ ~hit.panic /\ hit.any_hit) => SamePoint(hit.hit.p, RayAt(ray, hit.hit.t))

(***************************************************************************)
(* Who keeps the camera and the accelerator alive.  arcs holds the strong  *)
(* count of every Arc<dyn Camera> and Arc<Accelerator> allocation, in the  *)
(* order they were made; an allocation is freed when its count is 0.  The  *)
(* scene engine is None once it has been dropped; its root holds the       *)
(* cameras of its Primitive::Camera nodes.                                 *)
(***************************************************************************)
MaxCameraArcs == 2
MaxAcceleratorArcs == 2

\* drop of one owner of every allocation in ids
DropOwner(counts, ids) == [i \in DOMAIN counts |-> IF i \in ids THEN counts[i] - 1 ELSE counts[i]]

SeqRange(s) == {s[i] : i \in DOMAIN s}

InitOwners ==
  /\ EngineIdle
  /\ GeoIdle
  /\ LiIdle
  /\ NodeIdle
  /\ ndc_call = None
  /\ texture = None
  /\ film_call = None
  /\ arcs = [camera |-> <<>>, accelerator |-> <<>>]

\* translate of a scene with cams camera nodes: each camera is Arc::new,
\* cloned into cameras and moved into its node (scene.rs:90-92); the
\* assignment to self.root drops the nodes of the former root (scene.rs:37)
TranslateOwners(cams) ==
  LET made == (Len(arcs.camera) + 1)..(Len(arcs.camera) + cams)
      fresh == [i \in 1..cams |-> Len(arcs.camera) + i]
  IN /\ main_pc = "running"
     /\ scene_engine # None
     /\ Len(arcs.camera) + cams <= MaxCameraArcs
     /\ arcs' = [arcs EXCEPT !.camera = DropOwner(@, scene_engine.root.cams) \o [i \in 1..cams |-> 2]]
     /\ scene_engine' = [cameras |-> scene_engine.cameras \o fresh,
                         active_cam |-> IF cams > 0 THEN 0 ELSE scene_engine.active_cam,
                         root |-> [id |-> 0, cams |-> made, li |-> {White}]]
     /\ UNCHANGED <<ndc_call, texture, film_call, film, film_lock, threads, settings, context,
                    main_pc, geo_vars, li_vars, node_vars>>

\* the counts after the RenderContext ctx, or None, has been dropped
DropContext(a, ctx) ==
  IF ctx = None THEN a ELSE [a EXCEPT !.accelerator = DropOwner(@, {ctx.accelerator})]

\* prepare_render: Arc::new(Accelerator::build(&scene)) and
\* Arc::downgrade(&scene.cameras[scene.active_cam]); the context made by
\* an earlier call and not rendered is dropped by the caller
PrepareRenderOwners ==
  /\ main_pc = "running"
  /\ scene_engine # None
  /\ Len(arcs.accelerator) < MaxAcceleratorArcs
  /\ IF scene_engine.active_cam < Len(scene_engine.cameras)
     THEN /\ context' = [settings |-> settings,
                         accelerator |-> Len(arcs.accelerator) + 1,
                         camera |-> scene_engine.cameras[scene_engine.active_cam + 1]]
          /\ arcs' = [DropContext(arcs, context) EXCEPT !.accelerator = Append(@, 1)]
          /\ UNCHANGED main_pc
     ELSE /\ main_pc' = "panicked"
          /\ UNCHANGED <<context, arcs>>
  /\ UNCHANGED <<ndc_call, texture, film_call, film, film_lock, threads, settings, scene_engine,
                 geo_vars, li_vars, node_vars>>

UpgradeCamera_StaysWeak(a, cam) == [ok |-> a.camera[cam] > 0, arcs |-> a]

\* context.camera.upgrade(): Some and one more strong owner while the
\* camera is alive, None once it has been freed
UpgradeCamera(a, cam) ==
  IF a.camera[cam] > 0
  THEN [ok |-> TRUE, arcs |-> [a EXCEPT !.camera[cam] = @ + 1]]
  ELSE [ok |-> FALSE, arcs |-> a]

\* render_frame: upgrade().expect(..) panics before thread::spawn; the
\* closure takes the camera and the context, accelerator included
RenderFrameOwners ==
  LET up == UpgradeCamera(arcs, context.camera)
  IN /\ main_pc = "running"
     /\ context # None
     /\ IF up.ok
        THEN \E t \in Threads :
               /\ threads[t].pc = "unborn"
               /\ \A u \in Threads : u < t => threads[u].pc # "unborn"
               /\ threads' = [threads EXCEPT ![t].pc = "sample", ![t].settings = Some(context.settings),
                                             ![t].accelerator = context.accelerator,
                                             ![t].camera = context.camera]
               /\ arcs' = up.arcs
               /\ UNCHANGED main_pc
        ELSE /\ main_pc' = "panicked"
             /\ arcs' = DropContext(arcs, context)
             /\ UNCHANGED threads
     /\ context' = None
     /\ UNCHANGED <<ndc_call, texture, film_call, film, film_lock, settings, scene_engine,
                    geo_vars, li_vars, node_vars>>

\* the SceneEngine is dropped: its cameras and its nodes with it
DropSceneEngine ==
  /\ main_pc = "running"
  /\ scene_engine # None
  /\ arcs' = [arcs EXCEPT !.camera = DropOwner(DropOwner(@, SeqRange(scene_engine.cameras)),
                                               scene_engine.root.cams)]
  /\ scene_engine' = None
  /\ UNCHANGED <<ndc_call, texture, film_call, film, film_lock, threads, settings, context,
                 main_pc, geo_vars, li_vars, node_vars>>

\* the render thread computes the pixel of the film of 1 x 1 with its
\* camera and its accelerator and writes it
ThreadPixelOwners(t) ==
  /\ threads[t].pc = "sample"
  /\ film' = FilmWritePixel(film, 0, 0, ColorIntoU8x4(White))
  /\ threads' = [threads EXCEPT ![t].pc = "exit", ![t].writes = @ + 1]
  /\ UNCHANGED <<screen_vars, film_lock, settings, scene_engine, context, main_pc,
                 geo_vars, li_vars, node_vars>>

\* the closure returns: its camera and its context are dropped
ThreadExitOwners(t) ==
  /\ threads[t].pc = "exit"
  /\ threads' = [threads EXCEPT ![t].pc = "done"]
  /\ arcs' = [arcs EXCEPT !.camera = DropOwner(@, {threads[t].camera}),
                          !.accelerator = DropOwner(@, {threads[t].accelerator})]
  /\ UNCHANGED <<ndc_call, texture, film_call, film, film_lock, settings, scene_engine, context,
                 main_pc, geo_vars, li_vars, node_vars>>

NextOwners ==
  \/ \E cams \in 0..1 : TranslateOwners(cams)
  \/ PrepareRenderOwners
  \/ RenderFrameOwners
  \/ DropSceneEngine
  \/ \E t \in Threads : Alive /\ (ThreadPixelOwners(t) \/ ThreadExitOwners(t))

SpecOwners == InitOwners /\ [][NextOwners]_vars

\* the threads render_frame has spawned and that have not returned
Rendering == {t \in Threads : threads[t].pc \in {"sample", "exit"}}

\* C28: while a render thread runs, its camera and its accelerator have a
\* strong owner, whatever happens to the SceneEngine; and a render_frame
\* call whose camera has been freed panics, spawns no thread and writes
\* no pixel.
C28_ThreadKeepsCameraAndAccelerator ==
  /\ [](\A t \in Rendering :
          /\ arcs.camera[threads[t].camera] > 0
          /\ arcs.accelerator[threads[t].accelerator] > 0)
  /\ [][(context # None /\ context' = None /\ arcs.camera[context.camera] = 0) =>
          (main_pc' = "panicked" /\ threads' = threads /\ film' = film)]_vars

\* a thread renders after the SceneEngine was dropped: it is the only
\* owner of its camera
C28_ThreadOutlivesSceneEngine ==
  /\ scene_engine = None
  /\ \E t \in Rendering : arcs.camera[threads[t].camera] = 1

(***************************************************************************)
(* lib.rs: RaytraceState::render frame by frame, with the texture the      *)
(* display shows.  main_pc is "running" between two frames, "reading"      *)
(* while the read guard is held, "skipped" when try_read gave Err and      *)
(* "uploaded" when the texture has been updated.                           *)
(***************************************************************************)
FrameTryRead_Blocking ==
  /\ main_pc = "running"
  /\ ReadLockFree(film_lock)
  /\ ~film_lock.poisoned
  /\ film_lock' = [film_lock EXCEPT !.readers = {"main"}]
  /\ main_pc' = "reading"
  /\ UNCHANGED <<film, threads, settings, scene_engine, context, geo_vars, li_vars, node_vars, screen_vars>>

\* if let Ok(film) = self.render_engine.film.try_read(): Err at once when
\* a writer holds the lock or the lock is poisoned
FrameTryRead ==
  /\ main_pc = "running"
  /\ IF ReadLockFree(film_lock) /\ ~film_lock.poisoned
     THEN /\ film_lock' = [film_lock EXCEPT !.readers = {"main"}]
          /\ main_pc' = "reading"
     ELSE /\ main_pc' = "skipped"
          /\ UNCHANGED film_lock
  /\ UNCHANGED <<film, threads, settings, scene_engine, context, geo_vars, li_vars, node_vars, screen_vars>>

\* self.texture.update(film.data()), then the read guard is dropped
FrameUpload ==
  /\ main_pc = "reading"
  /\ texture' = Some(FilmData(film))
  /\ film_lock' = [film_lock EXCEPT !.readers = {}]
  /\ main_pc' = "uploaded"
  /\ UNCHANGED <<ndc_call, film_call, arcs, film, threads, settings, scene_engine, context,
                 geo_vars, li_vars, node_vars>>

\* the render pass draws the texture as it is and render returns
FramePresent ==
  /\ main_pc \in {"skipped", "uploaded"}
  /\ main_pc' = "running"
  /\ UNCHANGED <<film, film_lock, threads, settings, scene_engine, context, geo_vars, li_vars,
                 node_vars, screen_vars>>

Frame == FrameTryRead \/ FrameUpload \/ FramePresent

NextDisplay ==
  \/ \E s \in CoreScenes : Translate(s)
  \/ PrepareRender
  \/ RenderFrame
  \/ \E t \in Threads : Alive /\ ThreadStep(t)
  \/ FrameTryRead
  \/ FrameUpload
  \/ FramePresent

\* the engine is made for a film of 2 x 1 pixels and one pass
InitDisplay ==
  /\ Init
  /\ settings.resolution = <<2, 1>>
  /\ settings.samples_per_pixel = 1

SpecDisplay == InitDisplay /\ [][NextDisplay]_vars

\* C29: the display never waits for the Film lock: whatever the render
\* threads do, its next step of the frame can be taken; a try_read made
\* while a render thread holds the write lock skips the upload of that
\* frame and leaves the texture and the lock as they were; and a render
\* thread is kept from the lock by the display only while the display is
\* inside one read, which ends by a step of the display alone.
C29_DisplayNeverBlocks ==
  /\ [](Alive => ENABLED Frame)
  /\ [](film_lock.readers # {} => (main_pc = "reading" /\ ENABLED FrameUpload))
  /\ [](main_pc # "reading" => film_lock.readers = {})
  /\ [][(main_pc = "running" /\ main_pc' \in {"reading", "skipped"} /\ film_lock.writer # 0) =>
          (main_pc' = "skipped" /\ texture' = texture /\ film_lock' = film_lock)]_vars
  /\ [][main_pc = "skipped" => texture' = texture]_vars

\* a frame was skipped while a render thread held the write lock, after
\* an earlier frame had uploaded the film
C29_FrameSkippedUnderWriter ==
  /\ main_pc = "skipped"
  /\ film_lock.writer # 0
  /\ texture # None

(***************************************************************************)
(* core/node.rs: add_child and set_parent called in any order on any       *)
(* nodes.                                                                  *)
(***************************************************************************)
\* the longest children list followed
MaxChildren == 2

\* parent.add_child(child) for any two handles
AddChildCall(p, child) ==
  /\ NodesAlive
  /\ Len(node_data[p].children) < MaxChildren
  /\ node_data' = AddChildHeap(node_data, p, child)
  /\ node_call' = [op |-> "add_child", outcome |-> "returned"]
  /\ UNCHANGED <<json, de_nodes, engine_vars, geo_vars, li_vars, screen_vars>>

\* node.set_parent(&parent) while the parent's list has room
SetParentCall(n, p) ==
  /\ NodesAlive
  /\ Len(node_data[p].children) < MaxChildren
  /\ node_data' = SetParentHeap(node_data, n, p).heap
  /\ node_call' = [op |-> "set_parent", outcome |-> SetParentHeap(node_data, n, p).outcome]
  /\ UNCHANGED <<json, de_nodes, engine_vars, geo_vars, li_vars, screen_vars>>

NextTree ==
  \/ \E p, child \in NodeIds : AddChildCall(p, child)
  \/ \E n, p \in NodeIds : SetParentCall(n, p)

SpecTree == InitParent /\ [][NextTree]_vars

\* C30: after any add_child and set_parent calls that returned, c is in
\* p.children() exactly when c.parent() is p, no node is its own parent
\* and no node is listed twice by one parent.
C30_ChildrenMirrorParents ==
  NodesAlive =>
    \A p, c \in NodeIds :
      /\ (Position(node_data[p].children, c) # 0) <=> (node_data[c].parent = p)
      /\ node_data[c].parent # c
      /\ Cardinality({i \in 1..Len(node_data[p].children) : node_data[p].children[i] = c}) <= 1

====
